---- MODULE Spec2Model ----
(***************************************************************************)
(* Payment service of Lolopenza/Adv2Final: the payment and subscription    *)
(* use cases (internal/usecase) over the postgres record store, the redis  *)
(* read cache, the NATS event publisher and the mail service.              *)
(*                                                                         *)
(* Every call a use case makes to a collaborator (store, cache, publisher, *)
(* mail) is one step of the calling goroutine, so that calls of different  *)
(* callers interleave between any two collaborator calls.  A collaborator  *)
(* call may fail; the failure is a nondeterministic choice of the step.    *)
(***************************************************************************)
EXTENDS Integers, Sequences, FiniteSets

\* ------------------------------------------------------------------ bounds

\* The concurrent callers (goroutines serving requests), and the caller of
\* the runs in which operations are executed one at a time.
Procs == {"c1", "c2"}
SeqProcs == {"c0"}
Callers == Procs \cup SeqProcs

\* Payment identities uuid.New() can hand out, and one identity no payment
\* ever gets (a request for an unknown payment).
PayIdSeq == <<"p1", "p2", "p3", "p4">>
UnknownPayId == "p0"

\* Subscription identities: those uuid.New() can hand out, one no
\* subscription ever gets, and one a caller of CreateSubscription supplies.
SubIdSeq == <<"s1", "s2", "s3", "s4">>
UnknownSubId == "s0"
SuppliedSubId == "s9"

\* The days (counted from 1 January = 0) on which a run of renewals starts,
\* 30 and 31 January, and the last day it reaches, 1 February.
FirstDays == {29, 30}
LastDay == 31

\* The number of payments / subscriptions created in a sequential run.
SeqPayments == 1
SeqSubscriptions == 1

\* Inputs of InitiatePayment: amount (in thousandths of the currency unit, so
\* 10000 is 10.000), currency, customer email,
\* description, and the identity and status the caller's record carries (""
\* when it carries none); the first MaxPayInputs of them are used.
MaxPayInputs == 1

PayInputSeq ==
    << [id |-> UnknownPayId, status |-> "COMPLETED", amount |-> 10000, currency |-> "USD",
        customerEmail |-> "a@x.com", description |-> "widget"],
       [id |-> "", status |-> "", amount |-> 2500, currency |-> "EUR",
        customerEmail |-> "b@y.com", description |-> "gadget"],
       [id |-> "", status |-> "", amount |-> 10, currency |-> "GBP",
        customerEmail |-> "a@x.com", description |-> ""] >>

PayInputs == {PayInputSeq[i] : i \in 1..MaxPayInputs}

\* Inputs of ListPayments: customer email ("" for no filter), page, limit.
ListInputs ==
    { [customerEmail |-> "", page |-> 0, limit |-> 0],
      [customerEmail |-> "a@x.com", page |-> 1, limit |-> 1],
      [customerEmail |-> "", page |-> 2, limit |-> 1],
      [customerEmail |-> "b@y.com", page |-> 1, limit |-> 101],
      [customerEmail |-> "", page |-> 0, limit |-> 500],
      [customerEmail |-> "", page |-> 21474838, limit |-> 100] }

\* The number of rows in the tables that are listed, and the customers and
\* creation times of those rows.
MaxListed == 3
ListedEmails == {"a@x.com", "b@y.com"}
ListedTimes == {0, 1}

\* Inputs of UpdatePayment: amount (in thousandths), currency, description.
UpdateInputs == { [amount |-> 7505, currency |-> "EUR", description |-> "gizmo"] }

\* Inputs of CreateSubscription: the caller may supply an identity and a
\* status ("" when not supplied); the price is in thousandths.
SubInputs ==
    { [id |-> "", status |-> "", customerEmail |-> "b@y.com", planName |-> "Premium",
       price |-> 19990, currency |-> "USD"],
      [id |-> "", status |-> "EXPIRED", customerEmail |-> "b@y.com", planName |-> "Premium",
       price |-> 19990, currency |-> "USD"],
      [id |-> SuppliedSubId, status |-> "", customerEmail |-> "b@y.com", planName |-> "Premium",
       price |-> 19990, currency |-> "USD"] }

\* --------------------------------------------------------------- constants

PaymentStatusPending   == "PENDING"
PaymentStatusCompleted == "COMPLETED"
PaymentStatusFailed    == "FAILED"
PaymentStatusRefunded  == "REFUNDED"

SubscriptionStatusActive    == "ACTIVE"
SubscriptionStatusCancelled == "CANCELLED"
SubscriptionStatusExpired   == "EXPIRED"

ErrPaymentNotFound      == "payment not found"
ErrSubscriptionNotFound == "subscription not found"
ErrInvalidStatus        == "invalid payment status"
\* Any error of the store driver (database/sql).
ErrStore                == "store error"
ErrMail                 == "mail error"
ErrRender               == "render error"
\* Any error of the mail service.
OK                      == "nil"

PaymentConfirmedSubject == "payment.confirmed"
PaymentFailedSubject    == "payment.failed"
PaymentRefundedSubject  == "payment.refunded"

\* 24*time.Hour, in hours.
CacheTTL == 24

\* ---------------------------------------------------------------- calendar

\* The clock counts hours from 1 January 00:00 of a year that, like the
\* years after it, is not a leap year.
MonthDays == <<31, 28, 31, 30, 31, 30, 31, 31, 30, 31, 30, 31>>

\* The days of a year before its month m (m = 13: the whole year).
RECURSIVE DaysBefore(_)
DaysBefore(m) == IF m = 1 THEN 0 ELSE DaysBefore(m - 1) + MonthDays[m - 1]

\* The month (1..12) of the day-of-year d (0..364).
MonthOf(d) == CHOOSE m \in 1..12 : DaysBefore(m) <= d /\ d < DaysBefore(m + 1)

\* t.AddDate(0, 1, 0): the same day number and time of day in the next
\* month, normalized as time.Date does, so that a day the next month does
\* not have runs over into the month after it (31 January -> 3 March).
AddDate(t) ==
    LET day == t \div 24
        year == day \div DaysBefore(13)
        d == day % DaysBefore(13)
        m == MonthOf(d)
    IN (year * DaysBefore(13) + DaysBefore(m + 1) + (d - DaysBefore(m))) * 24 + (t % 24)

\* ------------------------------------------------------------------- state

VARIABLES
    payStore,   \* payments table: identity -> row
    payCache,   \* redis keys "payment:<id>": identity -> [val, exp]
    subStore,   \* subscriptions table: identity -> row
    subCache,   \* redis keys "subscription:<id>": identity -> [val, exp]
    freePay,    \* payment identities uuid.New() can still hand out
    usedPay,    \* payment identities handed out so far
    freeSub,    \* subscription identities uuid.New() can still hand out
    usedSub,    \* subscription identities in use so far
    now,        \* the clock (hours)
    faulty,     \* the collaborators whose calls may fail in this run
    slotStore,  \* appointment service, business_slots table: identity -> row
    apptStore,  \* appointment service, appointments table: identity -> row
    slotCache,  \* appointment service, redis keys "slots:<business>:<date>": key -> JSON
    pc,         \* per caller: the collaborator call it makes next
    op,         \* per caller: the use-case operation it executes
    arg,        \* per caller: [id, in] the operation's arguments
    loc,        \* per caller: the record the operation holds (payment / subscription)
    pre,        \* sequential caller: store row and cache entry of arg.id when the call began
    res,        \* per caller: the error the operation returns (OK for nil)
    ret,        \* per caller: the record a Get operation returns
    fx,         \* per caller: the collaborator calls the operation made so far, in order
    prev        \* per caller: the use-case call its handler made just before this one

booking == <<slotStore, apptStore, slotCache>>
stores  == <<payStore, subStore, freePay, usedPay, freeSub, usedSub, faulty, booking>>
caches  == <<payCache, subCache>>
callers == <<pc, op, arg, loc, pre, res, ret, fx, prev>>
vars    == <<payStore, payCache, subStore, subCache, freePay, usedPay, freeSub, usedSub, now,
             faulty, slotStore, apptStore, slotCache,
             pc, op, arg, loc, pre, res, ret, fx, prev>>

Nil   == [id |-> ""]
Empty == [x \in {} |-> Nil]

\* -------------------------------------------------------------- map helpers

Has(m, k) == k \in DOMAIN m

Put(m, k, v) == [x \in DOMAIN m \cup {k} |-> IF x = k THEN v ELSE m[x]]

Del(m, k) == [x \in DOMAIN m \ {k} |-> m[x]]

Lookup(m, k) == IF Has(m, k) THEN m[k] ELSE Nil

\* ------------------------------------------------------------------- cache

\* The fields of domain.Payment and of domain.Subscription.
PaymentFields ==
    {"id", "amount", "currency", "status", "customerEmail", "description",
     "createdAt", "updatedAt"}

SubscriptionFields ==
    {"id", "customerEmail", "planName", "price", "currency", "status",
     "startDate", "endDate", "createdAt", "updatedAt"}

\* The zero value of a field: 0 for a number or a time, false for a
\* boolean, "" for a string.
Zero(name) ==
    IF name \in {"amount", "price", "startDate", "endDate", "createdAt", "updatedAt"}
    THEN 0
    ELSE IF name = "isBooked" THEN FALSE ELSE ""

\* json.Marshal(value): the JSON object, one member <<name, value>> for each
\* field of the struct that is passed.
Marshal(v) == {<<name, v[name]>> : name \in DOMAIN v}

\* json.Unmarshal(data, &struct): each field of the struct takes the value of
\* the member of its name, a field without a member keeps its zero value and
\* a member without a field is dropped.
Unmarshal(data, fields) ==
    [name \in fields |->
        IF \E m \in data : m[1] = name
        THEN (CHOOSE m \in data : m[1] = name)[2]
        ELSE Zero(name)]

\* redisCache.Set / subscriptionCache.Set: the JSON snapshot under the key,
\* expiring after the given duration.
CacheSet(c, k, v, ttl) == Put(c, k, [data |-> Marshal(v), exp |-> now + ttl])

\* A variant of the cache read that still finds a key after it expired.
CacheGetStale(c, k, fields) ==
    IF Has(c, k) THEN Unmarshal(c[k].data, fields) ELSE Nil

\* redisCache.Get / subscriptionCache.Get: nil on redis.Nil (absent or
\* expired key), else the snapshot unmarshalled into the struct of the cache.
CacheGet(c, k, fields) ==
    IF Has(c, k) /\ now < c[k].exp THEN Unmarshal(c[k].data, fields) ELSE Nil

\* redisCache.Delete
CacheDelete(c, k) == Del(c, k)

\* GeneratePaymentCacheKey: "payment:" + paymentID
GeneratePaymentCacheKey(paymentID) == <<"payment:", paymentID>>

\* GenerateSubscriptionCacheKey: "subscription:" + subscriptionID
GenerateSubscriptionCacheKey(subscriptionID) == <<"subscription:", subscriptionID>>

\* ----------------------------------------------------------- payment store

\* The value a DECIMAL(10,2) column takes for an amount: rounded to
\* hundredths, halves upwards.
Decimal2(amount) == ((amount + 5) \div 10) * 10

\* paymentRepository.Create: INSERT of the whole row; amount is DECIMAL(10,2).
PayRepoCreate(store, payment) ==
    Put(store, payment.id, [payment EXCEPT !.amount = Decimal2(@)])

\* paymentRepository.GetByID: nil, nil on sql.ErrNoRows.
PayRepoGetByID(store, id) == Lookup(store, id)

\* A variant of paymentRepository.Update with a guard on the row's status (as
\* if the statement ended WHERE id = $7 AND status = <a status the new one
\* may follow>): a write that arrives after the row has moved on changes nothing.
PayRepoUpdateGuarded(store, payment) ==
    IF /\ Has(store, payment.id)
       /\ \/ store[payment.id].status = payment.status
          \/ /\ store[payment.id].status = PaymentStatusPending
             /\ payment.status \in {PaymentStatusCompleted, PaymentStatusFailed}
          \/ /\ store[payment.id].status = PaymentStatusCompleted
             /\ payment.status = PaymentStatusRefunded
    THEN [store EXCEPT ![payment.id] =
            [@ EXCEPT !.amount = Decimal2(payment.amount),
                      !.currency = payment.currency,
                      !.status = payment.status,
                      !.customerEmail = payment.customerEmail,
                      !.description = payment.description,
                      !.updatedAt = now]]
    ELSE store

\* paymentRepository.Update: UPDATE ... SET amount, currency, status,
\* customer_email, description, updated_at WHERE id; no row, no change and
\* no error.  The update_payments_updated_at trigger then stamps updated_at.
PayRepoUpdate(store, payment) ==
    IF Has(store, payment.id)
    THEN [store EXCEPT ![payment.id] =
            [@ EXCEPT !.amount = Decimal2(payment.amount),
                      !.currency = payment.currency,
                      !.status = payment.status,
                      !.customerEmail = payment.customerEmail,
                      !.description = payment.description,
                      !.updatedAt = now]]
    ELSE store

\* paymentRepository.Delete
PayRepoDelete(store, id) == Del(store, id)

\* The rows a List query selects: all, or those of one customer.
Matching(store, customerEmail) ==
    {id \in DOMAIN store : customerEmail = "" \/ store[id].customerEmail = customerEmail}

\* ORDER BY created_at DESC: the orders in which the selected rows can come
\* (rows created at the same time come in any order).
Orders(store, ids) ==
    {o \in [1..Cardinality(ids) -> ids] :
        /\ \A i, j \in DOMAIN o : i # j => o[i] # o[j]
        /\ \A i, j \in DOMAIN o : i < j => store[o[i]].createdAt >= store[o[j]].createdAt}

\* a * b in int32 arithmetic, for 0 <= a < 2^31 and 0 <= b <= 100: the low
\* 32 bits of the product, read as a signed number.  The product is computed
\* in 16-bit halves.
Int32Mul(a, b) ==
    LET lo == (a % 65536) * b
        hi == ((a \div 65536) * b + (lo \div 65536)) % 65536
    IN (IF hi >= 32768 THEN hi - 65536 ELSE hi) * 65536 + (lo % 65536)

\* offset := (page - 1) * limit, both int32.
Offset(page, limit) == Int32Mul(page - 1, limit)

\* The rows LIMIT limit OFFSET offset selects of `total` ordered rows.
PageOf(total, offset, limit) ==
    IF offset >= total THEN 0
    ELSE IF total - offset < limit THEN total - offset ELSE limit

\* paymentRepository.List: COUNT(*) of the selected rows, and the rows of the
\* page, LIMIT limit OFFSET (page - 1) * limit, in the order ord.  The
\* database rejects a negative OFFSET; the caller asks for no such page.
PayRepoList(store, customerEmail, page, limit, ord) ==
    LET total == Cardinality(Matching(store, customerEmail))
        offset == Offset(page, limit)
    IN [total |-> total,
        payments |-> [k \in 1..PageOf(total, offset, limit) |-> store[ord[offset + k]]]]

\* --------------------------------------------------------- payment use case

PayTransitions == {"ConfirmPayment", "RefundPayment", "CancelPayment", "UpdatePayment"}

\* The operations that begin with getPayment(id).
PayLoadOps ==
    PayTransitions \cup {"DeletePayment", "SendPaymentReminder", "GenerateInvoice"}

\* A variant of the status checks in which ConfirmPayment also accepts a
\* payment that is already Completed.
RequiredStatusConfirmAgain(o) ==
    CASE o = "ConfirmPayment" -> {PaymentStatusPending, PaymentStatusCompleted}
      [] o = "RefundPayment"  -> {PaymentStatusCompleted}
      [] o = "CancelPayment"  -> {PaymentStatusPending}
      [] o = "UpdatePayment"  -> {PaymentStatusPending}
      [] o = "SendPaymentReminder" -> {PaymentStatusPending}
      [] o = "GenerateInvoice" -> {PaymentStatusCompleted}
      [] OTHER -> {PaymentStatusPending, PaymentStatusCompleted,
                   PaymentStatusFailed, PaymentStatusRefunded}

\* A variant of the status checks in which GenerateInvoice also accepts a
\* Refunded payment.
RequiredStatusInvoiceRefunded(o) ==
    CASE o = "ConfirmPayment" -> {PaymentStatusPending}
      [] o = "RefundPayment"  -> {PaymentStatusCompleted}
      [] o = "CancelPayment"  -> {PaymentStatusPending}
      [] o = "UpdatePayment"  -> {PaymentStatusPending}
      [] o = "SendPaymentReminder" -> {PaymentStatusPending}
      [] o = "GenerateInvoice" -> {PaymentStatusCompleted, PaymentStatusRefunded}
      [] OTHER -> {PaymentStatusPending, PaymentStatusCompleted,
                   PaymentStatusFailed, PaymentStatusRefunded}

\* A variant of the status checks in which UpdatePayment has none.
RequiredStatusUpdateAny(o) ==
    CASE o = "ConfirmPayment" -> {PaymentStatusPending}
      [] o = "RefundPayment"  -> {PaymentStatusCompleted}
      [] o = "CancelPayment"  -> {PaymentStatusPending}
      [] o = "SendPaymentReminder" -> {PaymentStatusPending}
      [] o = "GenerateInvoice" -> {PaymentStatusCompleted}
      [] OTHER -> {PaymentStatusPending, PaymentStatusCompleted,
                   PaymentStatusFailed, PaymentStatusRefunded}

\* The status check of each operation (payment.Status != ... => ErrInvalidStatus).
RequiredStatus(o) ==
    CASE o = "ConfirmPayment" -> {PaymentStatusPending}
      [] o = "RefundPayment"  -> {PaymentStatusCompleted}
      [] o = "CancelPayment"  -> {PaymentStatusPending}
      [] o = "UpdatePayment"  -> {PaymentStatusPending}
      [] o = "SendPaymentReminder" -> {PaymentStatusPending}
      [] o = "GenerateInvoice" -> {PaymentStatusCompleted}
      [] OTHER -> {PaymentStatusPending, PaymentStatusCompleted,
                   PaymentStatusFailed, PaymentStatusRefunded}

\* A variant of the assignments in which CancelPayment stores Refunded.
ModifiedCancelRefunds(o, payment, in) ==
    CASE o = "ConfirmPayment" ->
            [payment EXCEPT !.status = PaymentStatusCompleted, !.updatedAt = now]
      [] o \in {"RefundPayment", "CancelPayment"} ->
            [payment EXCEPT !.status = PaymentStatusRefunded, !.updatedAt = now]
      [] o = "UpdatePayment" ->
            [payment EXCEPT !.amount = in.amount, !.currency = in.currency,
                            !.description = in.description, !.updatedAt = now]
      [] OTHER -> payment

\* The assignments each operation makes to the loaded payment before repo.Update.
Modified(o, payment, in) ==
    CASE o = "ConfirmPayment" ->
            [payment EXCEPT !.status = PaymentStatusCompleted, !.updatedAt = now]
      [] o = "RefundPayment" ->
            [payment EXCEPT !.status = PaymentStatusRefunded, !.updatedAt = now]
      [] o = "CancelPayment" ->
            [payment EXCEPT !.status = PaymentStatusFailed, !.updatedAt = now]
      [] o = "UpdatePayment" ->
            [payment EXCEPT !.amount = in.amount, !.currency = in.currency,
                            !.description = in.description, !.updatedAt = now]
      [] OTHER -> payment

\* A variant of the subjects in which CancelPayment publishes on the
\* confirmation subject.
SubjectCancelConfirmed(o) ==
    CASE o = "ConfirmPayment" -> PaymentConfirmedSubject
      [] o = "RefundPayment"  -> PaymentRefundedSubject
      [] o = "CancelPayment"  -> PaymentConfirmedSubject
      [] OTHER -> ""

\* The subject an operation publishes on.
Subject(o) ==
    CASE o = "ConfirmPayment" -> PaymentConfirmedSubject
      [] o = "RefundPayment"  -> PaymentRefundedSubject
      [] o = "CancelPayment"  -> PaymentFailedSubject
      [] OTHER -> ""

\* The mail an operation sends after publishing.
Mail(o) ==
    CASE o = "ConfirmPayment" -> "SendPaymentConfirmation"
      [] o = "RefundPayment"  -> "SendRefundConfirmation"
      [] OTHER -> ""

Collaborators == {"store", "cache", "publisher", "mail", "renderer"}

\* The outcomes of a call to collaborator c: success, and an error if c may fail.
Outcomes(c) == IF c \in faulty THEN BOOLEAN ELSE {TRUE}

\* One collaborator call: which collaborator, which call, and whether it succeeded.
Fx(e, what, ok) == [e |-> e, what |-> what, ok |-> ok]

\* What the call finds stored and cached for its identity.  It is history,
\* kept for the sequential caller only: under concurrency the row changes
\* while the call runs, and no property reads it.
\* The row and the cache entry of an identity, Nil where there is none.
PayRow(id) == Lookup(payStore, id)

\* The cache entry of a key as the cache decodes it, with its expiry.
Decoded(c, k, fields) ==
    IF Has(c, k) THEN [val |-> Unmarshal(c[k].data, fields), exp |-> c[k].exp] ELSE Nil

PayEntry(id) == Decoded(payCache, GeneratePaymentCacheKey(id), PaymentFields)

SubRow(id) == Lookup(subStore, id)

SubEntry(id) == Decoded(subCache, GenerateSubscriptionCacheKey(id), SubscriptionFields)

NoSnapshot == [store |-> Nil, cache |-> Nil]

Snapshot(p, row, entry) ==
    IF p \in SeqProcs
    THEN [store |-> row, cache |-> entry]
    ELSE NoSnapshot

\* A caller enters a use-case operation.
Begin(p, o, id, in, row, entry, first) ==
    /\ pc[p] = "idle"
    /\ pc' = [pc EXCEPT ![p] = first]
    /\ op' = [op EXCEPT ![p] = o]
    /\ arg' = [arg EXCEPT ![p] = [id |-> id, in |-> in]]
    /\ pre' = [pre EXCEPT ![p] = Snapshot(p, row, entry)]
    /\ fx' = [fx EXCEPT ![p] = <<>>]
    /\ res' = [res EXCEPT ![p] = ""]
    /\ ret' = [ret EXCEPT ![p] = Nil]
    /\ prev' = [prev EXCEPT ![p] = ""]

\* The operation returns err.
Finish(p, err) ==
    /\ pc' = [pc EXCEPT ![p] = "done"]
    /\ res' = [res EXCEPT ![p] = err]

\* The operation goes on to its next collaborator call.
Goto(p, next) ==
    /\ pc' = [pc EXCEPT ![p] = next]
    /\ UNCHANGED res

\* Every step but a call leaves the caller's operation as it is.
SameCall == UNCHANGED <<op, arg, pre, prev>>

Did(p, e, what, ok) == fx' = [fx EXCEPT ![p] = Append(@, Fx(e, what, ok))]

\* publishEvent(subject, payment): the payment is the message published on
\* the subject.
Event(subject, payment, ok) ==
    [e |-> "publisher", what |-> subject, ok |-> ok, val |-> payment]

\* A variant of InitiatePayment that keeps a status the caller supplied.
InitiatePaymentKeepsStatus(p) ==
    \E in \in PayInputs, id \in freePay :
        /\ Begin(p, "InitiatePayment", id, in, PayRow(id), PayEntry(id), "create")
        /\ freePay' = freePay \ {id}
        /\ usedPay' = usedPay \cup {id}
        /\ loc' = [loc EXCEPT ![p] =
                [id |-> id, amount |-> in.amount, currency |-> in.currency,
                 status |-> IF in.status = "" THEN PaymentStatusPending ELSE in.status,
                 customerEmail |-> in.customerEmail,
                 description |-> in.description, createdAt |-> now, updatedAt |-> now]]
        /\ UNCHANGED <<payStore, subStore, freeSub, usedSub, faulty, booking, caches, now>>

\* InitiatePayment, up to repo.Create: a fresh identity, status Pending,
\* both timestamps now, whatever the caller supplied.
InitiatePayment(p) ==
    \E in \in PayInputs, id \in freePay :
        /\ Begin(p, "InitiatePayment", id, in, PayRow(id), PayEntry(id), "create")
        /\ freePay' = freePay \ {id}
        /\ usedPay' = usedPay \cup {id}
        /\ loc' = [loc EXCEPT ![p] =
                [id |-> id, amount |-> in.amount, currency |-> in.currency,
                 status |-> PaymentStatusPending, customerEmail |-> in.customerEmail,
                 description |-> in.description, createdAt |-> now, updatedAt |-> now]]
        /\ UNCHANGED <<payStore, subStore, freeSub, usedSub, faulty, booking, caches, now>>

\* InitiatePayment: repo.Create.
PayCreate(p) ==
    /\ pc[p] = "create"
    /\ \E ok \in Outcomes("store") :
        /\ Did(p, "store", "Create", ok)
        /\ IF ok
           THEN payStore' = PayRepoCreate(payStore, loc[p]) /\ Goto(p, "cache")
           ELSE UNCHANGED payStore /\ Finish(p, ErrStore)
    /\ SameCall
    /\ UNCHANGED <<subStore, freePay, usedPay, freeSub, usedSub, faulty, booking, caches, now, loc, ret>>

\* A caller starts ConfirmPayment / RefundPayment / CancelPayment /
\* DeletePayment / SendPaymentReminder / GenerateInvoice.
CallPayment(p) ==
    \E o \in PayLoadOps \ {"UpdatePayment"}, id \in usedPay \cup {UnknownPayId} :
        /\ Begin(p, o, id, Nil, PayRow(id), PayEntry(id), "load")
        /\ UNCHANGED <<stores, caches, now, loc>>

\* A caller starts UpdatePayment(id, amount, currency, description).
CallUpdatePayment(p) ==
    \E in \in UpdateInputs, id \in usedPay \cup {UnknownPayId} :
        /\ Begin(p, "UpdatePayment", id, in, PayRow(id), PayEntry(id), "load")
        /\ UNCHANGED <<stores, caches, now, loc>>

\* getPayment and the status check that follows it; on success the payment
\* is modified in memory and the operation goes on to its store write.
PayLoad(p) ==
    /\ pc[p] = "load"
    /\ \E ok \in Outcomes("store") :
        /\ Did(p, "store", "GetByID", ok)
        /\ LET payment == PayRepoGetByID(payStore, arg[p].id) IN
           IF ~ok THEN Finish(p, ErrStore) /\ UNCHANGED loc
           ELSE IF payment = Nil THEN Finish(p, ErrPaymentNotFound) /\ UNCHANGED loc
           ELSE IF payment.status \notin RequiredStatus(op[p])
           THEN Finish(p, ErrInvalidStatus) /\ loc' = [loc EXCEPT ![p] = payment]
           ELSE /\ loc' = [loc EXCEPT ![p] = Modified(op[p], payment, arg[p].in)]
                /\ Goto(p, CASE op[p] = "DeletePayment" -> "delete"
                           [] op[p] = "SendPaymentReminder" -> "remind"
                           [] op[p] = "GenerateInvoice" -> "render"
                           [] OTHER -> "write")
    /\ SameCall
    /\ UNCHANGED <<stores, caches, now, ret>>

\* A variant of the store write that logs a failed repo.Update and goes on.
PayWriteGoesOn(p) ==
    /\ pc[p] = "write"
    /\ \E ok \in Outcomes("store") :
        /\ Did(p, "store", "Update", ok)
        /\ payStore' = IF ok THEN PayRepoUpdate(payStore, loc[p]) ELSE payStore
        /\ Goto(p, "cache")
    /\ SameCall
    /\ UNCHANGED <<subStore, freePay, usedPay, freeSub, usedSub, faulty, booking, caches, now, loc, ret>>

\* repo.Update of the modified payment.
PayWrite(p) ==
    /\ pc[p] = "write"
    /\ \E ok \in Outcomes("store") :
        /\ Did(p, "store", "Update", ok)
        /\ IF ok
           THEN payStore' = PayRepoUpdate(payStore, loc[p]) /\ Goto(p, "cache")
           ELSE UNCHANGED payStore /\ Finish(p, ErrStore)
    /\ SameCall
    /\ UNCHANGED <<subStore, freePay, usedPay, freeSub, usedSub, faulty, booking, caches, now, loc, ret>>

\* A variant of the cache write that returns a cache error to the caller.
PayCacheSetSurfaced(p) ==
    /\ pc[p] = "cache"
    /\ \E ok \in Outcomes("cache") :
        /\ Did(p, "cache", "Set", ok)
        /\ payCache' = IF ok THEN CacheSet(payCache, GeneratePaymentCacheKey(loc[p].id), loc[p], CacheTTL)
                             ELSE payCache
        /\ IF ~ok THEN Finish(p, "cache error")
           ELSE IF Subject(op[p]) # "" THEN Goto(p, "publish") ELSE Finish(p, OK)
    /\ SameCall
    /\ UNCHANGED <<stores, subCache, now, loc, ret>>

\* A variant of the cache write that keeps a payment in a final status for
\* one hour only.
PayCacheSetByStatus(p) ==
    /\ pc[p] = "cache"
    /\ \E ok \in Outcomes("cache") :
        /\ Did(p, "cache", "Set", ok)
        /\ payCache' = IF ok
                        THEN CacheSet(payCache, GeneratePaymentCacheKey(loc[p].id), loc[p],
                                      IF loc[p].status = PaymentStatusPending
                                      THEN CacheTTL ELSE 1)
                        ELSE payCache
    /\ IF Subject(op[p]) # "" THEN Goto(p, "publish") ELSE Finish(p, OK)
    /\ SameCall
    /\ UNCHANGED <<stores, subCache, now, loc, ret>>

\* cache.Set(GeneratePaymentCacheKey(payment.ID), payment, 24*time.Hour); an
\* error is logged (or dropped) and the operation goes on.
PayCacheSet(p) ==
    /\ pc[p] = "cache"
    /\ \E ok \in Outcomes("cache") :
        /\ Did(p, "cache", "Set", ok)
        /\ payCache' = IF ok THEN CacheSet(payCache, GeneratePaymentCacheKey(loc[p].id), loc[p], CacheTTL)
                             ELSE payCache
    /\ IF Subject(op[p]) # "" THEN Goto(p, "publish") ELSE Finish(p, OK)
    /\ SameCall
    /\ UNCHANGED <<stores, subCache, now, loc, ret>>

\* eventPublisher.PublishPaymentConfirmed / Refunded / Failed; an error is dropped.
PayPublish(p) ==
    /\ pc[p] = "publish"
    /\ \E ok \in Outcomes("publisher") :
        fx' = [fx EXCEPT ![p] = Append(@, Event(Subject(op[p]), loc[p], ok))]
    /\ IF Mail(op[p]) # "" THEN Goto(p, "email") ELSE Finish(p, OK)
    /\ SameCall
    /\ UNCHANGED <<stores, caches, now, loc, ret>>

\* emailService.SendPaymentConfirmation / SendRefundConfirmation; an error is dropped.
PayEmail(p) ==
    /\ pc[p] = "email"
    /\ \E ok \in Outcomes("mail") : Did(p, "mail", Mail(op[p]), ok)
    /\ IF op[p] = "ConfirmPayment" THEN Goto(p, "invoice") ELSE Finish(p, OK)
    /\ SameCall
    /\ UNCHANGED <<stores, caches, now, loc, ret>>

\* The outcome of GenerateInvoice(id) on the store as it is now: the store
\* error, not found, invalid status, the renderer's error, or nil.
GenerateInvoice(store, id, readOk, renderOk) ==
    LET payment == PayRepoGetByID(store, id) IN
    IF ~readOk THEN ErrStore
    ELSE IF payment = Nil THEN ErrPaymentNotFound
    ELSE IF payment.status # PaymentStatusCompleted THEN ErrInvalidStatus
    ELSE IF ~renderOk THEN ErrRender
    ELSE OK

\* ConfirmPayment: uc.GenerateInvoice(payment.ID), which reads the payment
\* from the store again and renders it if it is Completed; on an error
\* ConfirmPayment logs it and returns nil.
PayInvoice(p) ==
    /\ pc[p] = "invoice"
    /\ \E readOk \in Outcomes("store"), renderOk \in Outcomes("renderer") :
        LET payment == PayRepoGetByID(payStore, loc[p].id)
            rendered == readOk /\ payment # Nil /\ payment.status = PaymentStatusCompleted
            err == GenerateInvoice(payStore, loc[p].id, readOk, renderOk)
        IN
        /\ fx' = [fx EXCEPT ![p] =
                    @ \o <<Fx("store", "GetByID", readOk)>>
                      \o (IF rendered THEN <<Fx("renderer", "Render", renderOk)>> ELSE <<>>)]
        /\ IF err = OK THEN Goto(p, "invoiceEmail") ELSE Finish(p, OK)
    /\ SameCall
    /\ UNCHANGED <<stores, caches, now, loc, ret>>

\* ConfirmPayment: uc.SendInvoiceEmail(payment, invoiceURL, invoicePDF); an
\* error is logged.
PayInvoiceEmail(p) ==
    /\ pc[p] = "invoiceEmail"
    /\ \E ok \in Outcomes("mail") : Did(p, "mail", "SendInvoiceEmail", ok)
    /\ Finish(p, OK)
    /\ SameCall
    /\ UNCHANGED <<stores, caches, now, loc, ret>>

\* A variant of the store delete that goes on to the cache after a failed
\* repo.Delete.
PayDeleteGoesOn(p) ==
    /\ pc[p] = "delete"
    /\ \E ok \in Outcomes("store") :
        /\ Did(p, "store", "Delete", ok)
        /\ payStore' = IF ok THEN PayRepoDelete(payStore, loc[p].id) ELSE payStore
        /\ Goto(p, "evict")
    /\ SameCall
    /\ UNCHANGED <<subStore, freePay, usedPay, freeSub, usedSub, faulty, booking, caches, now, loc, ret>>

\* DeletePayment: repo.Delete(payment.ID).
PayDelete(p) ==
    /\ pc[p] = "delete"
    /\ \E ok \in Outcomes("store") :
        /\ Did(p, "store", "Delete", ok)
        /\ IF ok
           THEN payStore' = PayRepoDelete(payStore, loc[p].id) /\ Goto(p, "evict")
           ELSE UNCHANGED payStore /\ Finish(p, ErrStore)
    /\ SameCall
    /\ UNCHANGED <<subStore, freePay, usedPay, freeSub, usedSub, faulty, booking, caches, now, loc, ret>>

\* A variant of the eviction that empties the payment cache.
PayEvictAll(p) ==
    /\ pc[p] = "evict"
    /\ \E ok \in Outcomes("cache") :
        /\ Did(p, "cache", "Delete", ok)
        /\ payCache' = IF ok THEN Empty ELSE payCache
    /\ Finish(p, OK)
    /\ SameCall
    /\ UNCHANGED <<stores, subCache, now, loc, ret>>

\* DeletePayment: cache.Delete(cacheKey); an error is dropped.
PayEvict(p) ==
    /\ pc[p] = "evict"
    /\ \E ok \in Outcomes("cache") :
        /\ Did(p, "cache", "Delete", ok)
        /\ payCache' = IF ok THEN CacheDelete(payCache, GeneratePaymentCacheKey(loc[p].id)) ELSE payCache
    /\ Finish(p, OK)
    /\ SameCall
    /\ UNCHANGED <<stores, subCache, now, loc, ret>>

\* A variant of the reminder that logs a failed send and reports success.
PayRemindLogged(p) ==
    /\ pc[p] = "remind"
    /\ \E ok \in Outcomes("mail") :
        /\ Did(p, "mail", "SendPaymentReminder", ok)
        /\ Finish(p, OK)
    /\ SameCall
    /\ UNCHANGED <<stores, caches, now, loc, ret>>

\* SendPaymentReminder: emailService.SendPaymentReminder(payment); its error
\* is returned.
PayRemind(p) ==
    /\ pc[p] = "remind"
    /\ \E ok \in Outcomes("mail") :
        /\ Did(p, "mail", "SendPaymentReminder", ok)
        /\ Finish(p, IF ok THEN OK ELSE ErrMail)
    /\ SameCall
    /\ UNCHANGED <<stores, caches, now, loc, ret>>

\* The invoice URL of a payment: "https://api.example.com/invoices/" + ID + ".pdf"
InvoiceURL(id) == <<"https://api.example.com/invoices/", id, ".pdf">>

\* GenerateInvoice called on its own, after getPayment and the status check:
\* generateProfessionalInvoice(payment); the URL and the document are returned.
PayRender(p) ==
    /\ pc[p] = "render"
    /\ \E ok \in Outcomes("renderer") :
        /\ Did(p, "renderer", "Render", ok)
        /\ ret' = [ret EXCEPT ![p] =
                    IF ok THEN [id |-> loc[p].id, invoiceURL |-> InvoiceURL(loc[p].id),
                                invoicePDF |-> loc[p]]
                          ELSE Nil]
        /\ Finish(p, IF ok THEN OK ELSE ErrRender)
    /\ SameCall
    /\ UNCHANGED <<stores, caches, now, loc>>

\* A caller starts ListPayments(customerEmail, page, limit).
CallListPayments(p) ==
    \E in \in ListInputs :
        /\ Begin(p, "ListPayments", "", in, Nil, Nil, "list")
        /\ UNCHANGED <<stores, caches, now, loc>>

\* The page and the limit List is called with: a page below 1 becomes 1, a
\* limit below 1 or above 100 becomes 10.
Query(in) ==
    [customerEmail |-> in.customerEmail,
     page |-> IF in.page < 1 THEN 1 ELSE in.page,
     limit |-> IF in.limit < 1 \/ in.limit > 100 THEN 10 ELSE in.limit]

\* ListPayments: repo.List(customerEmail, page, limit), whose result or error
\* is returned; the list query fails on a negative OFFSET.
PayList(p) ==
    /\ pc[p] = "list"
    /\ LET q == Query(arg[p].in) IN
       \E up \in Outcomes("store"),
          ord \in Orders(payStore, Matching(payStore, q.customerEmail)) :
            LET ok == up /\ Offset(q.page, q.limit) >= 0 IN
            /\ Did(p, "store", "List", ok)
            /\ loc' = [loc EXCEPT ![p] = q]
            /\ ret' = [ret EXCEPT ![p] =
                        IF ok THEN PayRepoList(payStore, q.customerEmail, q.page, q.limit, ord)
                              ELSE Nil]
            /\ Finish(p, IF ok THEN OK ELSE ErrStore)
    /\ SameCall
    /\ UNCHANGED <<stores, caches, now>>

\* A caller starts GetPaymentStatus(id).
CallGetPaymentStatus(p) ==
    \E id \in usedPay \cup {UnknownPayId} :
        /\ Begin(p, "GetPaymentStatus", id, Nil, PayRow(id), PayEntry(id), "gcache")
        /\ UNCHANGED <<stores, caches, now, loc>>

\* A variant of the cache read that never uses what it read.
PayCacheGetUnused(p) ==
    /\ pc[p] = "gcache"
    /\ \E ok \in Outcomes("cache") : Did(p, "cache", "Get", ok)
    /\ UNCHANGED ret
    /\ Goto(p, "gread")
    /\ SameCall
    /\ UNCHANGED <<stores, caches, now, loc>>

\* GetPaymentStatus: cache.Get(cacheKey); a snapshot read without error is
\* returned, anything else falls through to the store.
PayCacheGet(p) ==
    /\ pc[p] = "gcache"
    /\ \E ok \in Outcomes("cache") :
        /\ Did(p, "cache", "Get", ok)
        /\ LET cached == CacheGet(payCache, GeneratePaymentCacheKey(arg[p].id), PaymentFields) IN
           IF ok /\ cached # Nil
           THEN ret' = [ret EXCEPT ![p] = cached] /\ Finish(p, OK)
           ELSE UNCHANGED ret /\ Goto(p, "gread")
    /\ SameCall
    /\ UNCHANGED <<stores, caches, now, loc>>

\* GetPaymentStatus: getPayment(id) after the cache miss.
PayRead(p) ==
    /\ pc[p] = "gread"
    /\ \E ok \in Outcomes("store") :
        /\ Did(p, "store", "GetByID", ok)
        /\ LET payment == PayRepoGetByID(payStore, arg[p].id) IN
           IF ~ok THEN Finish(p, ErrStore) /\ UNCHANGED loc
           ELSE IF payment = Nil THEN Finish(p, ErrPaymentNotFound) /\ UNCHANGED loc
           ELSE loc' = [loc EXCEPT ![p] = payment] /\ Goto(p, "grepop")
    /\ SameCall
    /\ UNCHANGED <<stores, caches, now, ret>>

\* GetPaymentStatus: cache.Set of the row read, then return it.
PayRepopulate(p) ==
    /\ pc[p] = "grepop"
    /\ \E ok \in Outcomes("cache") :
        /\ Did(p, "cache", "Set", ok)
        /\ payCache' = IF ok THEN CacheSet(payCache, GeneratePaymentCacheKey(arg[p].id), loc[p], CacheTTL)
                             ELSE payCache
    /\ ret' = [ret EXCEPT ![p] = loc[p]]
    /\ Finish(p, OK)
    /\ SameCall
    /\ UNCHANGED <<stores, subCache, now, loc>>

\* ------------------------------------------------------- subscription store

\* subscriptionRepository.Create: INSERT of the whole row; price is a
\* DECIMAL(10,2) column.
SubRepoCreate(store, subscription) ==
    Put(store, subscription.id, [subscription EXCEPT !.price = Decimal2(@)])

\* subscriptionRepository.GetByID: nil, nil on sql.ErrNoRows.
SubRepoGetByID(store, id) == Lookup(store, id)

\* subscriptionRepository.Update: every column but id and created_at, WHERE id.
SubRepoUpdate(store, subscription) ==
    IF Has(store, subscription.id)
    THEN [store EXCEPT ![subscription.id] =
            [subscription EXCEPT !.price = Decimal2(@),
                                 !.createdAt = store[subscription.id].createdAt]]
    ELSE store

\* subscriptionRepository.List: as paymentRepository.List, of subscriptions.
SubRepoList(store, customerEmail, page, limit, ord) ==
    LET total == Cardinality(Matching(store, customerEmail))
        offset == Offset(page, limit)
    IN [total |-> total,
        subscriptions |-> [k \in 1..PageOf(total, offset, limit) |-> store[ord[offset + k]]]]

\* ---------------------------------------------------- subscription use case

SubTransitions == {"CancelSubscription", "RenewSubscription"}

\* The mail a subscription operation sends.
SubMail(o) ==
    CASE o = "CancelSubscription" -> "SendCancellationEmail"
      [] o = "RenewSubscription"  -> "SendRenewalEmail"
      [] OTHER -> ""

\* A variant of the assignments in which CancelSubscription marks the
\* subscription Expired.
SubModifiedExpires(o, subscription) ==
    CASE o = "CancelSubscription" ->
            [subscription EXCEPT !.status = SubscriptionStatusExpired, !.updatedAt = now]
      [] o = "RenewSubscription" ->
            [subscription EXCEPT !.startDate = now, !.endDate = AddDate(now),
                                 !.updatedAt = now]
      [] OTHER -> subscription

\* The assignments Cancel / Renew make to the loaded subscription before repo.Update.
SubModified(o, subscription) ==
    CASE o = "CancelSubscription" ->
            [subscription EXCEPT !.status = SubscriptionStatusCancelled, !.updatedAt = now]
      [] o = "RenewSubscription" ->
            [subscription EXCEPT !.startDate = now, !.endDate = AddDate(now),
                                 !.updatedAt = now]
      [] OTHER -> subscription

\* CreateSubscription, up to repo.Create: an identity if none was supplied,
\* both timestamps now, status Active if none was supplied.  The dates are
\* those the caller (subscriptionServer.CreateSubscription) set.  The Payment
\* record it builds is only logged.  The number of subscriptions of a run is
\* bounded: a new identity, generated or supplied, uses up one of freeSub.
CreateSubscription(p) ==
    \E in \in SubInputs, fresh \in freeSub \cup {""} :
        LET id == IF in.id = "" THEN fresh ELSE in.id IN
        /\ id # ""
        /\ fresh = "" <=> id \in usedSub
        /\ Begin(p, "CreateSubscription", id, in, SubRow(id), SubEntry(id), "screate")
        /\ freeSub' = freeSub \ {fresh}
        /\ usedSub' = usedSub \cup {id}
        /\ loc' = [loc EXCEPT ![p] =
                [id |-> id, customerEmail |-> in.customerEmail, planName |-> in.planName,
                 price |-> in.price, currency |-> in.currency,
                 status |-> IF in.status = "" THEN SubscriptionStatusActive ELSE in.status,
                 startDate |-> now, endDate |-> AddDate(now),
                 createdAt |-> now, updatedAt |-> now]]
        /\ UNCHANGED <<payStore, subStore, freePay, usedPay, faulty, booking, caches, now>>

\* A variant of the insert that also stores the Payment built for the
\* subscription (CreateWithPayment).
SubCreateWithPayment(p) ==
    /\ pc[p] = "screate"
    /\ \E up \in Outcomes("store") :
        LET ok == up /\ ~Has(subStore, loc[p].id) IN
        /\ Did(p, "store", "Create", ok)
        /\ IF ok
           THEN /\ subStore' = SubRepoCreate(subStore, loc[p])
                /\ payStore' = Put(payStore, <<"payment of", loc[p].id>>,
                        [id |-> <<"payment of", loc[p].id>>, amount |-> loc[p].price,
                         currency |-> loc[p].currency, status |-> PaymentStatusPending,
                         customerEmail |-> loc[p].customerEmail,
                         description |-> <<"Subscription to ", loc[p].planName>>,
                         createdAt |-> now, updatedAt |-> now])
                /\ Goto(p, "scache")
           ELSE UNCHANGED <<subStore, payStore>> /\ Finish(p, ErrStore)
    /\ SameCall
    /\ UNCHANGED <<freePay, usedPay, freeSub, usedSub, faulty, booking, caches, now, loc, ret>>

\* CreateSubscription: repo.Create; the INSERT fails on an identity already stored.
SubCreate(p) ==
    /\ pc[p] = "screate"
    /\ \E up \in Outcomes("store") :
        LET ok == up /\ ~Has(subStore, loc[p].id) IN
        /\ Did(p, "store", "Create", ok)
        /\ IF ok
           THEN subStore' = SubRepoCreate(subStore, loc[p]) /\ Goto(p, "scache")
           ELSE UNCHANGED subStore /\ Finish(p, ErrStore)
    /\ SameCall
    /\ UNCHANGED <<payStore, freePay, usedPay, freeSub, usedSub, faulty, booking, caches, now, loc, ret>>

\* A caller starts GetSubscription / CancelSubscription / RenewSubscription.
CallSubscription(p) ==
    \E o \in SubTransitions \cup {"GetSubscription"}, id \in usedSub \cup {UnknownSubId} :
        /\ Begin(p, o, id, Nil, SubRow(id), SubEntry(id), "sget")
        /\ UNCHANGED <<stores, caches, now, loc>>

\* A variant of what follows GetSubscription in which RenewSubscription does
\* not check the status.
SubLoadedRenewAny(p, subscription) ==
    IF op[p] = "GetSubscription"
    THEN /\ ret' = [ret EXCEPT ![p] = subscription]
         /\ loc' = [loc EXCEPT ![p] = subscription]
         /\ Finish(p, OK)
    ELSE IF op[p] = "CancelSubscription" /\ subscription.status # SubscriptionStatusActive
    THEN /\ loc' = [loc EXCEPT ![p] = subscription]
         /\ Finish(p, ErrInvalidStatus)
         /\ UNCHANGED ret
    ELSE /\ loc' = [loc EXCEPT ![p] = SubModified(op[p], subscription)]
         /\ Goto(p, "swrite")
         /\ UNCHANGED ret

\* What follows GetSubscription returning `subscription` to its caller:
\* GetSubscription itself returns it; Cancel / Renew check the status, modify
\* the subscription in memory and go on to the store write.
SubLoaded(p, subscription) ==
    IF op[p] = "GetSubscription"
    THEN /\ ret' = [ret EXCEPT ![p] = subscription]
         /\ loc' = [loc EXCEPT ![p] = subscription]
         /\ Finish(p, OK)
    ELSE IF subscription.status # SubscriptionStatusActive
    THEN /\ loc' = [loc EXCEPT ![p] = subscription]
         /\ Finish(p, ErrInvalidStatus)
         /\ UNCHANGED ret
    ELSE /\ loc' = [loc EXCEPT ![p] = SubModified(op[p], subscription)]
         /\ Goto(p, "swrite")
         /\ UNCHANGED ret

\* A variant of the cache read that returns a cache error to the caller.
SubCacheGetSurfaced(p) ==
    /\ pc[p] = "sget"
    /\ \E ok \in Outcomes("cache") :
        /\ Did(p, "cache", "Get", ok)
        /\ LET cached == CacheGet(subCache, GenerateSubscriptionCacheKey(arg[p].id), SubscriptionFields) IN
           IF ~ok THEN UNCHANGED <<loc, ret>> /\ Finish(p, "cache error")
           ELSE IF cached # Nil
           THEN SubLoaded(p, cached)
           ELSE UNCHANGED <<loc, ret>> /\ Goto(p, "sread")
    /\ SameCall
    /\ UNCHANGED <<stores, caches, now>>

\* GetSubscription: cache.Get(cacheKey); a snapshot read without error is
\* used, anything else falls through to the store.
SubCacheGet(p) ==
    /\ pc[p] = "sget"
    /\ \E ok \in Outcomes("cache") :
        /\ Did(p, "cache", "Get", ok)
        /\ LET cached == CacheGet(subCache, GenerateSubscriptionCacheKey(arg[p].id), SubscriptionFields) IN
           IF ok /\ cached # Nil
           THEN SubLoaded(p, cached)
           ELSE UNCHANGED <<loc, ret>> /\ Goto(p, "sread")
    /\ SameCall
    /\ UNCHANGED <<stores, caches, now>>

\* GetSubscription: repo.GetByID(id) after the cache miss.
SubRead(p) ==
    /\ pc[p] = "sread"
    /\ \E ok \in Outcomes("store") :
        /\ Did(p, "store", "GetByID", ok)
        /\ LET subscription == SubRepoGetByID(subStore, arg[p].id) IN
           IF ~ok THEN Finish(p, ErrStore) /\ UNCHANGED loc
           ELSE IF subscription = Nil THEN Finish(p, ErrSubscriptionNotFound) /\ UNCHANGED loc
           ELSE loc' = [loc EXCEPT ![p] = subscription] /\ Goto(p, "srepop")
    /\ SameCall
    /\ UNCHANGED <<stores, caches, now, ret>>

\* GetSubscription: cache.Set of the row read, then return it to the caller.
SubRepopulate(p) ==
    /\ pc[p] = "srepop"
    /\ \E ok \in Outcomes("cache") :
        /\ Did(p, "cache", "Set", ok)
        /\ subCache' = IF ok THEN CacheSet(subCache, GenerateSubscriptionCacheKey(arg[p].id), loc[p], CacheTTL)
                             ELSE subCache
    /\ SubLoaded(p, loc[p])
    /\ SameCall
    /\ UNCHANGED <<stores, payCache, now>>

\* Cancel / Renew: repo.Update of the modified subscription.
SubWrite(p) ==
    /\ pc[p] = "swrite"
    /\ \E ok \in Outcomes("store") :
        /\ Did(p, "store", "Update", ok)
        /\ IF ok
           THEN subStore' = SubRepoUpdate(subStore, loc[p]) /\ Goto(p, "scache")
           ELSE UNCHANGED subStore /\ Finish(p, ErrStore)
    /\ SameCall
    /\ UNCHANGED <<payStore, freePay, usedPay, freeSub, usedSub, faulty, booking, caches, now, loc, ret>>

\* Create / Cancel / Renew: cache.Set(cacheKey, subscription, 24*time.Hour);
\* an error is logged.
SubCacheSet(p) ==
    /\ pc[p] = "scache"
    /\ \E ok \in Outcomes("cache") :
        /\ Did(p, "cache", "Set", ok)
        /\ subCache' = IF ok THEN CacheSet(subCache, GenerateSubscriptionCacheKey(loc[p].id), loc[p], CacheTTL)
                             ELSE subCache
    /\ IF SubMail(op[p]) # "" THEN Goto(p, "semail") ELSE Finish(p, OK)
    /\ SameCall
    /\ UNCHANGED <<stores, payCache, now, loc, ret>>

\* Cancel / Renew: emailService.SendCancellationEmail / SendRenewalEmail; an
\* error is logged.
SubEmail(p) ==
    /\ pc[p] = "semail"
    /\ \E ok \in Outcomes("mail") : Did(p, "mail", SubMail(op[p]), ok)
    /\ Finish(p, OK)
    /\ SameCall
    /\ UNCHANGED <<stores, caches, now, loc, ret>>

\* A caller starts ListSubscriptions(customerEmail, page, limit).
CallListSubscriptions(p) ==
    \E in \in ListInputs :
        /\ Begin(p, "ListSubscriptions", "", in, Nil, Nil, "slist")
        /\ UNCHANGED <<stores, caches, now, loc>>

\* ListSubscriptions: repo.List(customerEmail, page, limit), whose result or
\* error is returned.
SubList(p) ==
    /\ pc[p] = "slist"
    /\ LET q == Query(arg[p].in) IN
       \E up \in Outcomes("store"),
          ord \in Orders(subStore, Matching(subStore, q.customerEmail)) :
            LET ok == up /\ Offset(q.page, q.limit) >= 0 IN
            /\ Did(p, "store", "List", ok)
            /\ loc' = [loc EXCEPT ![p] = q]
            /\ ret' = [ret EXCEPT ![p] =
                        IF ok THEN SubRepoList(subStore, q.customerEmail, q.page, q.limit, ord)
                              ELSE Nil]
            /\ Finish(p, IF ok THEN OK ELSE ErrStore)
    /\ SameCall
    /\ UNCHANGED <<stores, caches, now>>

\* ------------------------------------------------------------------ callers

\* The operation has returned to its caller, which is free to call again.
Return(p) ==
    /\ pc[p] = "done"
    /\ pc' = [pc EXCEPT ![p] = "idle"]
    /\ op' = [op EXCEPT ![p] = ""]
    /\ arg' = [arg EXCEPT ![p] = [id |-> "", in |-> Nil]]
    /\ loc' = [loc EXCEPT ![p] = Nil]
    /\ pre' = [pre EXCEPT ![p] = NoSnapshot]
    /\ res' = [res EXCEPT ![p] = ""]
    /\ ret' = [ret EXCEPT ![p] = Nil]
    /\ fx' = [fx EXCEPT ![p] = <<>>]
    /\ prev' = [prev EXCEPT ![p] = ""]
    /\ UNCHANGED <<stores, caches, now>>

\* paymentServer.ConfirmPayment / RefundPayment / CancelPayment / UpdatePayment:
\* after the use case returned nil the handler calls GetPaymentStatus(id) for
\* the response it sends.
FollowUp(p) ==
    /\ pc[p] = "done"
    /\ op[p] \in PayTransitions
    /\ res[p] = OK
    /\ pc' = [pc EXCEPT ![p] = "gcache"]
    /\ op' = [op EXCEPT ![p] = "GetPaymentStatus"]
    /\ prev' = [prev EXCEPT ![p] = op[p]]
    /\ pre' = [pre EXCEPT ![p] = Snapshot(p, PayRow(arg[p].id), PayEntry(arg[p].id))]
    /\ loc' = [loc EXCEPT ![p] = Nil]
    /\ res' = [res EXCEPT ![p] = ""]
    /\ fx' = [fx EXCEPT ![p] = <<>>]
    /\ UNCHANGED <<stores, caches, now, arg, ret>>

\* The state after construction: empty store and cache, idle callers; the
\* identities uuid.New() will hand out are payIds and subIds.
StartAt(payIds, subIds, failing, t) ==
    /\ payStore = Empty
    /\ payCache = Empty
    /\ subStore = Empty
    /\ subCache = Empty
    /\ freePay = payIds
    /\ usedPay = {}
    /\ freeSub = subIds
    /\ usedSub = {}
    /\ faulty = failing
    /\ slotStore = Empty
    /\ apptStore = Empty
    /\ slotCache = Empty
    /\ now = t
    /\ pc = [p \in Callers |-> "idle"]
    /\ op = [p \in Callers |-> ""]
    /\ arg = [p \in Callers |-> [id |-> "", in |-> Nil]]
    /\ loc = [p \in Callers |-> Nil]
    /\ pre = [p \in Callers |-> NoSnapshot]
    /\ res = [p \in Callers |-> ""]
    /\ ret = [p \in Callers |-> Nil]
    /\ fx = [p \in Callers |-> <<>>]
    /\ prev = [p \in Callers |-> ""]

Start(payIds, subIds, failing) == StartAt(payIds, subIds, failing, 0)

\* The steps of the payment use case.
PayStep(p) ==
    \/ PayCreate(p)
    \/ PayLoad(p)
    \/ PayWrite(p)
    \/ PayCacheSet(p)
    \/ PayPublish(p)
    \/ PayEmail(p)
    \/ PayInvoice(p)
    \/ PayInvoiceEmail(p)
    \/ PayDelete(p)
    \/ PayEvict(p)
    \/ PayRemind(p)
    \/ PayRender(p)
    \/ PayCacheGet(p)
    \/ PayRead(p)
    \/ PayRepopulate(p)

\* The steps of the subscription use case.
SubStep(p) ==
    \/ SubCreate(p)
    \/ SubCacheGet(p)
    \/ SubRead(p)
    \/ SubRepopulate(p)
    \/ SubWrite(p)
    \/ SubCacheSet(p)
    \/ SubEmail(p)

\* Concurrent callers of the payment use case on one payment, with a store
\* that may fail.
Init == Start({PayIdSeq[1]}, {}, {"store"})

Next ==
    \E p \in Procs :
        \/ InitiatePayment(p)
        \/ CallPayment(p)
        \/ CallUpdatePayment(p)
        \/ CallGetPaymentStatus(p)
        \/ PayStep(p)
        \/ Return(p)

Spec == Init /\ [][Next]_vars

\* One caller, one operation at a time.  The payment and the subscription
\* use case share no state (tables, cache keys), so a run in which every
\* collaborator may fail works on payments or on subscriptions; a run in
\* which nothing fails works on both.
SeqInit ==
    \/ Start({PayIdSeq[i] : i \in 1..SeqPayments}, {}, Collaborators)
    \/ Start({}, {SubIdSeq[i] : i \in 1..SeqSubscriptions}, Collaborators)
    \/ Start({PayIdSeq[i] : i \in 1..SeqPayments},
             {SubIdSeq[i] : i \in 1..SeqSubscriptions}, {})

SeqNext ==
    \E p \in SeqProcs :
        \/ InitiatePayment(p)
        \/ CallPayment(p)
        \/ CallUpdatePayment(p)
        \/ CallGetPaymentStatus(p)
        \/ CallListPayments(p)
        \/ PayStep(p)
        \/ PayList(p)
        \/ CreateSubscription(p)
        \/ CallSubscription(p)
        \/ SubStep(p)
        \/ FollowUp(p)
        \/ Return(p)

SpecSeq == SeqInit /\ [][SeqNext]_vars

\* A day passes.
Tick ==
    /\ now \div 24 < LastDay
    /\ now' = now + 24
    /\ UNCHANGED <<stores, caches, callers>>

\* One caller of the subscription use case while days pass: the run starts
\* at noon of one of FirstDays, nothing fails.
RenewInit ==
    \E day \in FirstDays : StartAt({}, {SubIdSeq[1]}, {}, day * 24 + 12)

RenewNext ==
    \/ \E p \in SeqProcs :
            \/ CreateSubscription(p)
            \/ CallSubscription(p)
            \/ SubStep(p)
            \/ Return(p)
    \/ Tick

SpecRenew == RenewInit /\ [][RenewNext]_vars

\* The tables hold up to MaxListed payments and as many subscriptions, of
\* the customers `email` and created at the times `at`; nothing is cached and
\* nothing fails.
Listed(k, email, at) ==
    /\ payStore = [id \in {PayIdSeq[i] : i \in 1..k} |->
            LET i == CHOOSE i \in 1..k : PayIdSeq[i] = id IN
            [id |-> id, amount |-> 2500, currency |-> "EUR",
             status |-> PaymentStatusPending, customerEmail |-> email[i],
             description |-> "gadget", createdAt |-> at[i], updatedAt |-> at[i]]]
    /\ subStore = [id \in {SubIdSeq[i] : i \in 1..k} |->
            LET i == CHOOSE i \in 1..k : SubIdSeq[i] = id IN
            [id |-> id, customerEmail |-> email[i], planName |-> "Premium",
             price |-> 19990, currency |-> "USD", status |-> SubscriptionStatusActive,
             startDate |-> at[i], endDate |-> AddDate(at[i]),
             createdAt |-> at[i], updatedAt |-> at[i]]]
    /\ payCache = Empty
    /\ subCache = Empty
    /\ freePay = {}
    /\ usedPay = DOMAIN payStore
    /\ freeSub = {}
    /\ usedSub = DOMAIN subStore
    /\ faulty = {}
    /\ slotStore = Empty
    /\ apptStore = Empty
    /\ slotCache = Empty
    /\ now = 2
    /\ pc = [p \in Callers |-> "idle"]
    /\ op = [p \in Callers |-> ""]
    /\ arg = [p \in Callers |-> [id |-> "", in |-> Nil]]
    /\ loc = [p \in Callers |-> Nil]
    /\ pre = [p \in Callers |-> NoSnapshot]
    /\ res = [p \in Callers |-> ""]
    /\ ret = [p \in Callers |-> Nil]
    /\ fx = [p \in Callers |-> <<>>]
    /\ prev = [p \in Callers |-> ""]

ListInit ==
    \E k \in 0..MaxListed :
        \E email \in [1..k -> ListedEmails], at \in [1..k -> ListedTimes] :
            Listed(k, email, at)

ListNext ==
    \E p \in SeqProcs :
        \/ CallListPayments(p)
        \/ PayList(p)
        \/ CallListSubscriptions(p)
        \/ SubList(p)
        \/ Return(p)

SpecList == ListInit /\ [][ListNext]_vars

\* ------------------------------------------------------- the caches alone

\* A caller of the two caches (TestSubscriptionCache): it sets, gets and
\* deletes one key of each cache while days pass, and keeps what it last
\* wrote in its local variables.
CacheKinds == {"payment", "subscription"}

CachedKey(kind) ==
    IF kind = "payment" THEN GeneratePaymentCacheKey(PayIdSeq[1])
                        ELSE GenerateSubscriptionCacheKey(SubIdSeq[1])

\* The values the caller sets: two payments, two subscriptions.
CachedValues(kind) ==
    IF kind = "payment"
    THEN { [id |-> PayIdSeq[1], amount |-> 7505, currency |-> "EUR",
            status |-> st, customerEmail |-> "a@x.com", description |-> "",
            createdAt |-> 0, updatedAt |-> now] :
              st \in {PaymentStatusPending, PaymentStatusCompleted} }
    ELSE { [id |-> SubIdSeq[1], customerEmail |-> "b@y.com", planName |-> "Premium",
            price |-> 19990, currency |-> "USD", status |-> st,
            startDate |-> 0, endDate |-> AddDate(0),
            createdAt |-> 0, updatedAt |-> now] :
              st \in {SubscriptionStatusActive, SubscriptionStatusCancelled} }

\* The expirations the caller sets, in hours.
Expirations == {CacheTTL, 2 * CacheTTL}

\* What the caller last wrote to the cache `kind`: the value and when it
\* expires, or no value after a Delete or before the first Set.
Forgotten == [v |-> Nil, exp |-> 0]

Remembered(p, kind) == IF kind \in DOMAIN loc[p] THEN loc[p][kind] ELSE Forgotten

Remember(p, kind, m) ==
    loc' = [loc EXCEPT ![p] =
              [id |-> "",
               payment |-> IF kind = "payment" THEN m ELSE Remembered(p, "payment"),
               subscription |-> IF kind = "subscription" THEN m
                                ELSE Remembered(p, "subscription")]]

\* cache.Set(key, v, ttl)
SetCached(p) ==
    /\ pc[p] = "idle"
    /\ \E kind \in CacheKinds :
        \E v \in CachedValues(kind), ttl \in Expirations :
            /\ payCache' = IF kind = "payment"
                            THEN CacheSet(payCache, CachedKey(kind), v, ttl) ELSE payCache
            /\ subCache' = IF kind = "subscription"
                            THEN CacheSet(subCache, CachedKey(kind), v, ttl) ELSE subCache
            /\ op' = [op EXCEPT ![p] = "Set"]
            /\ arg' = [arg EXCEPT ![p] = [id |-> CachedKey(kind), in |-> [kind |-> kind, at |-> now]]]
            /\ Remember(p, kind, [v |-> v, exp |-> now + ttl])
            /\ ret' = [ret EXCEPT ![p] = Nil]
            /\ res' = [res EXCEPT ![p] = OK]
    /\ UNCHANGED <<stores, now, pc, pre, fx, prev>>

\* cache.Get(key)
GetCached(p) ==
    /\ pc[p] = "idle"
    /\ \E kind \in CacheKinds :
        /\ op' = [op EXCEPT ![p] = "Get"]
        /\ arg' = [arg EXCEPT ![p] = [id |-> CachedKey(kind), in |-> [kind |-> kind, at |-> now]]]
        /\ ret' = [ret EXCEPT ![p] =
                    IF kind = "payment"
                    THEN CacheGet(payCache, CachedKey(kind), PaymentFields)
                    ELSE CacheGet(subCache, CachedKey(kind), SubscriptionFields)]
        /\ res' = [res EXCEPT ![p] = OK]
    /\ UNCHANGED <<stores, caches, now, pc, loc, pre, fx, prev>>

\* cache.Delete(key)
DeleteCached(p) ==
    /\ pc[p] = "idle"
    /\ \E kind \in CacheKinds :
        /\ payCache' = IF kind = "payment"
                        THEN CacheDelete(payCache, CachedKey(kind)) ELSE payCache
        /\ subCache' = IF kind = "subscription"
                        THEN CacheDelete(subCache, CachedKey(kind)) ELSE subCache
        /\ op' = [op EXCEPT ![p] = "Delete"]
        /\ arg' = [arg EXCEPT ![p] = [id |-> CachedKey(kind), in |-> [kind |-> kind, at |-> now]]]
        /\ Remember(p, kind, Forgotten)
        /\ ret' = [ret EXCEPT ![p] = Nil]
        /\ res' = [res EXCEPT ![p] = OK]
    /\ UNCHANGED <<stores, now, pc, pre, fx, prev>>

CacheInit == \E day \in FirstDays : StartAt({}, {}, {}, day * 24)

CacheNext ==
    \/ \E p \in SeqProcs :
            \/ SetCached(p)
            \/ GetCached(p)
            \/ DeleteCached(p)
    \/ Tick

SpecCache == CacheInit /\ [][CacheNext]_vars

-----------------------------------------------------------------------------
\* Payment status machine

\* The edges of the payment status machine.
LegalEdges ==
    { <<PaymentStatusPending, PaymentStatusCompleted>>,
      <<PaymentStatusPending, PaymentStatusFailed>>,
      <<PaymentStatusCompleted, PaymentStatusRefunded>> }

\* The payments that are stored before and after a step.
Kept == DOMAIN payStore \cap DOMAIN payStore'

\* C1: every change of a stored payment's status, under any interleaving of
\* callers, is Pending -> Completed, Pending -> Failed or Completed -> Refunded;
\* no stored status leaves Failed or Refunded or goes back to Pending.
C1_StatusFollowsEdges ==
    [][\A id \in Kept :
          \/ payStore'[id].status = payStore[id].status
          \/ <<payStore[id].status, payStore'[id].status>> \in LegalEdges]_vars

\* C4: once a stored payment's status is not Pending, its amount, currency and
\* description never change again, under any interleaving of callers.
C4_FrozenAfterPending ==
    [][\A id \in Kept :
          payStore[id].status # PaymentStatusPending =>
              /\ payStore'[id].amount = payStore[id].amount
              /\ payStore'[id].currency = payStore[id].currency
              /\ payStore'[id].description = payStore[id].description]_vars

\* The calls of fx that succeeded on collaborator e with call what.
Succeeded(f, e, what) ==
    \E i \in 1..Len(f) : f[i].e = e /\ f[i].what = what /\ f[i].ok

\* C10: repo.Update has no concurrency control: whatever the row holds when a
\* transition's store write succeeds, the row's status, amount (as the column
\* holds it), currency and description become those of the writer's copy, so
\* of two transitions that
\* both loaded Pending the later write overwrites the earlier one.
C10_LastWriteWins ==
    [][\A p \in Procs :
          (pc[p] = "write" /\ pc'[p] = "cache" /\ Has(payStore, loc[p].id)) =>
              /\ payStore'[loc[p].id].status = loc[p].status
              /\ payStore'[loc[p].id].amount = Decimal2(loc[p].amount)
              /\ payStore'[loc[p].id].currency = loc[p].currency
              /\ payStore'[loc[p].id].description = loc[p].description]_vars

\* C10: ConfirmPayment and CancelPayment of the same payment have both returned
\* nil, both store writes succeeded, and the row holds Failed: the cancel's
\* write replaced the Completed that the confirm had stored.
C10_BothSucceeded ==
    \E p \in Procs, q \in Procs :
        /\ pc[p] = "done" /\ op[p] = "ConfirmPayment" /\ res[p] = OK
        /\ pc[q] = "done" /\ op[q] = "CancelPayment" /\ res[q] = OK
        /\ arg[p].id = arg[q].id
        /\ Succeeded(fx[p], "store", "Update")
        /\ Succeeded(fx[q], "store", "Update")
        /\ Succeeded(fx[p], "publisher", PaymentConfirmedSubject)
        /\ Has(payStore, arg[p].id)
        /\ payStore[arg[p].id].status = PaymentStatusFailed


-----------------------------------------------------------------------------
\* One caller at a time

\* No store call of the operation failed.
StoreOk(f) == \A i \in 1..Len(f) : f[i].e = "store" => f[i].ok

\* The calls that write: everything but the reads of the store and the cache.
IsWrite(c) == c.what \notin {"Get", "GetByID"}

Writes(f) == SelectSeq(f, IsWrite)

\* Caller p's operation o has returned, and the payment it named was stored
\* when it was called.
Returned(p, o) ==
    /\ pc[p] = "done"
    /\ op[p] = o
    /\ pre[p].store # Nil

\* C2: with one caller at a time and no store failure, ConfirmPayment of a
\* stored payment returns nil exactly when the stored status was Pending, and
\* the stored status is then Completed; on a Completed payment (a second
\* confirm) it returns ErrInvalidStatus and the row stays as it was.
C2_ConfirmIffPending ==
    \A p \in SeqProcs :
        (Returned(p, "ConfirmPayment") /\ StoreOk(fx[p])) =>
            /\ res[p] = OK <=> pre[p].store.status = PaymentStatusPending
            /\ res[p] = OK => payStore[arg[p].id].status = PaymentStatusCompleted
            /\ res[p] # OK => res[p] = ErrInvalidStatus /\ payStore[arg[p].id] = pre[p].store
            /\ pre[p].store.status = PaymentStatusCompleted =>
                   /\ res[p] = ErrInvalidStatus
                   /\ payStore[arg[p].id].status = PaymentStatusCompleted

\* C2: a second ConfirmPayment, of a payment already Completed, was rejected.
C2_SecondConfirmRejected ==
    \E p \in SeqProcs :
        /\ Returned(p, "ConfirmPayment") /\ StoreOk(fx[p])
        /\ pre[p].store.status = PaymentStatusCompleted
        /\ res[p] = ErrInvalidStatus

\* C3: with one caller at a time and no store failure, RefundPayment returns
\* nil exactly when the stored status was Completed and then stores Refunded;
\* CancelPayment returns nil exactly when it was Pending and then stores
\* Failed; from any other status they return ErrInvalidStatus and store nothing.
C3_RefundCancelGuards ==
    \A p \in SeqProcs :
        /\ (Returned(p, "RefundPayment") /\ StoreOk(fx[p])) =>
            /\ res[p] = OK <=> pre[p].store.status = PaymentStatusCompleted
            /\ res[p] = OK => payStore[arg[p].id].status = PaymentStatusRefunded
            /\ res[p] # OK => res[p] = ErrInvalidStatus /\ payStore[arg[p].id] = pre[p].store
        /\ (Returned(p, "CancelPayment") /\ StoreOk(fx[p])) =>
            /\ res[p] = OK <=> pre[p].store.status = PaymentStatusPending
            /\ res[p] = OK => payStore[arg[p].id].status = PaymentStatusFailed
            /\ res[p] # OK => res[p] = ErrInvalidStatus /\ payStore[arg[p].id] = pre[p].store

\* C3: CancelPayment of a Pending payment has returned nil and the row is Failed.
C3_CancelledPending ==
    \E p \in SeqProcs :
        /\ Returned(p, "CancelPayment") /\ StoreOk(fx[p])
        /\ pre[p].store.status = PaymentStatusPending
        /\ res[p] = OK
        /\ payStore[arg[p].id].status = PaymentStatusFailed

\* C5: on a payment whose stored status is Failed or Refunded, ConfirmPayment,
\* RefundPayment, CancelPayment and UpdatePayment return ErrInvalidStatus (the
\* store's own error if the load failed), make no store write, cache write,
\* publish, mail or invoice, and leave the row and the cache entry as they were.
C5_TerminalRejects ==
    \A p \in SeqProcs :
        ( /\ pc[p] = "done" /\ op[p] \in PayTransitions
          /\ pre[p].store # Nil
          /\ pre[p].store.status \in {PaymentStatusFailed, PaymentStatusRefunded} ) =>
            /\ StoreOk(fx[p]) => res[p] = ErrInvalidStatus
            /\ res[p] \in {ErrInvalidStatus, ErrStore}
            /\ Writes(fx[p]) = <<>>
            /\ payStore[arg[p].id] = pre[p].store
            /\ PayEntry(arg[p].id) = pre[p].cache

\* C5: UpdatePayment of a Refunded payment was rejected.
C5_UpdateOfRefunded ==
    \E p \in SeqProcs :
        /\ Returned(p, "UpdatePayment")
        /\ pre[p].store.status = PaymentStatusRefunded
        /\ res[p] = ErrInvalidStatus


-----------------------------------------------------------------------------
\* Best-effort side effects and their order

\* The operations that write a record's new state to the store.
PayWriters == PayTransitions \cup {"InitiatePayment"}

SubWriters == SubTransitions \cup {"CreateSubscription"}

\* The store call that persists operation o's transition.
WriteCall(o) ==
    IF o \in {"InitiatePayment", "CreateSubscription"} THEN "Create" ELSE "Update"

\* The position in f of the store write of operation o, 0 if there is none yet.
WriteAt(f, o) ==
    IF \E i \in 1..Len(f) : f[i].e = "store" /\ f[i].what = WriteCall(o)
    THEN CHOOSE i \in 1..Len(f) :
            /\ f[i].e = "store" /\ f[i].what = WriteCall(o)
            /\ \A j \in 1..(i - 1) : ~(f[j].e = "store" /\ f[j].what = WriteCall(o))
    ELSE 0

\* No call is made twice after position k of f.
OnceEachAfter(f, k) ==
    \A i \in (k + 1)..Len(f), j \in (k + 1)..Len(f) :
        (i < j) => ~(f[i].e = f[j].e /\ f[i].what = f[j].what)

\* C6: whenever the store write of a transition succeeded (InitiatePayment,
\* ConfirmPayment, RefundPayment, CancelPayment, UpdatePayment,
\* CreateSubscription, CancelSubscription, RenewSubscription) the operation
\* returns nil and the store holds the new state (a payment's amount as its
\* column holds it), whichever of the cache write,
\* publish, mails and invoice failed; after the store write no call is made twice.
C6_BestEffort ==
    \A p \in SeqProcs :
        (pc[p] = "done" /\ op[p] \in PayWriters \cup SubWriters
            /\ Succeeded(fx[p], "store", WriteCall(op[p]))) =>
            /\ res[p] = OK
            /\ OnceEachAfter(fx[p], WriteAt(fx[p], op[p]))
            /\ op[p] \in PayWriters =>
                   /\ Has(payStore, loc[p].id)
                   /\ payStore[loc[p].id] = [loc[p] EXCEPT !.amount = Decimal2(@)]
            /\ op[p] \in SubWriters =>
                   Has(subStore, loc[p].id) /\ subStore[loc[p].id] = loc[p]

\* C6: ConfirmPayment has returned nil with Completed stored although the cache
\* write, the publish, the confirmation mail and the invoice rendering all failed.
C6_AllEffectsFailed ==
    \E p \in SeqProcs :
        /\ pc[p] = "done" /\ op[p] = "ConfirmPayment" /\ res[p] = OK
        /\ payStore[arg[p].id].status = PaymentStatusCompleted
        /\ \A c \in {"cache", "publisher", "mail", "renderer"} :
               \E i \in 1..Len(fx[p]) : fx[p][i].e = c /\ ~fx[p][i].ok

\* The writing calls of each operation in the order store write, cache write,
\* publish, notification, invoice.
Canon(o) ==
    CASE o = "InitiatePayment" -> << <<"store", "Create">>, <<"cache", "Set">> >>
      [] o = "ConfirmPayment" ->
            << <<"store", "Update">>, <<"cache", "Set">>,
               <<"publisher", PaymentConfirmedSubject>>,
               <<"mail", "SendPaymentConfirmation">>,
               <<"renderer", "Render">>, <<"mail", "SendInvoiceEmail">> >>
      [] o = "RefundPayment" ->
            << <<"store", "Update">>, <<"cache", "Set">>,
               <<"publisher", PaymentRefundedSubject>>,
               <<"mail", "SendRefundConfirmation">> >>
      [] o = "CancelPayment" ->
            << <<"store", "Update">>, <<"cache", "Set">>,
               <<"publisher", PaymentFailedSubject>> >>
      [] o = "UpdatePayment" -> << <<"store", "Update">>, <<"cache", "Set">> >>
      [] o = "CreateSubscription" -> << <<"store", "Create">>, <<"cache", "Set">> >>
      [] o = "CancelSubscription" ->
            << <<"store", "Update">>, <<"cache", "Set">>,
               <<"mail", "SendCancellationEmail">> >>
      [] o = "RenewSubscription" ->
            << <<"store", "Update">>, <<"cache", "Set">>,
               <<"mail", "SendRenewalEmail">> >>
      [] OTHER -> << >>

\* The writing calls w are the first calls of the order c, and nothing follows
\* a store write that failed.
InOrder(w, c) ==
    /\ Len(w) <= Len(c)
    /\ \A i \in 1..Len(w) : <<w[i].e, w[i].what>> = c[i]
    /\ \A i \in 1..Len(w) : (i > 1) => w[1].ok

\* Caller p's store write failed: p returns the store's error and the record
\* is as it was when p was called.
FailedWriteAborts(p, w) ==
    (w # << >> /\ ~w[Len(w)].ok /\ w[Len(w)].e = "store") =>
        /\ pc[p] = "done" /\ res[p] = ErrStore
        /\ op[p] \in PayWriters => Lookup(payStore, arg[p].id) = pre[p].store
        /\ op[p] \in SubWriters => Lookup(subStore, arg[p].id) = pre[p].store

\* C7 as stated: in every transition the writing calls come in the order store
\* write, cache write, publish, notification, invoice, none before the store
\* write succeeded; a failed store write is returned, with no side effect made
\* and the record unchanged.
C7_StoreWriteFirst ==
    \A p \in SeqProcs :
        op[p] \in PayWriters \cup SubWriters =>
            /\ InOrder(Writes(fx[p]), Canon(op[p]))
            /\ FailedWriteAborts(p, Writes(fx[p]))

\* The cache write GetSubscription makes when CancelSubscription or
\* RenewSubscription loads the subscription on a cache miss.
LoadFill(p) ==
    IF /\ op[p] \in SubTransitions
       /\ Writes(fx[p]) # << >>
       /\ Writes(fx[p])[1].e = "cache"
    THEN 1 ELSE 0

\* C7, amended: as C7_StoreWriteFirst, except that CancelSubscription and
\* RenewSubscription, on a cache miss, first write the subscription they read
\* to the cache (GetSubscription's fill), before the store write and also when
\* that write then fails; every other writing call follows the successful
\* store write in the stated order.
C7_StoreWriteFirstButFill ==
    \A p \in SeqProcs :
        op[p] \in PayWriters \cup SubWriters =>
            LET w == Writes(fx[p])
                rest == SubSeq(w, LoadFill(p) + 1, Len(w))
            IN /\ InOrder(rest, Canon(op[p]))
               /\ FailedWriteAborts(p, rest)

\* C7: CancelSubscription filled the cache while loading, then wrote the
\* store, the cache and sent the mail.
C7_FillThenWrite ==
    \E p \in SeqProcs :
        /\ pc[p] = "done" /\ op[p] = "CancelSubscription"
        /\ Len(Writes(fx[p])) = 4
        /\ Writes(fx[p])[1].e = "cache"
        /\ Writes(fx[p])[2].e = "store" /\ Writes(fx[p])[2].ok

-----------------------------------------------------------------------------
\* Reads after writes

\* C8: after a payment transition has returned nil, the next
\* GetPaymentStatus of that payment returns the status the store holds.
C8_ReadsStoredStatus ==
    \A p \in SeqProcs :
        (pc[p] = "done" /\ op[p] = "GetPaymentStatus"
            /\ prev[p] \in PayTransitions /\ res[p] = OK) =>
            ret[p].status = payStore[arg[p].id].status

\* C9: CancelSubscription and RenewSubscription return nil only if the status
\* the store held when they were called was Active; otherwise they return
\* ErrInvalidStatus and do not write the store.
C9_GuardOnStoredStatus ==
    \A p \in SeqProcs :
        (pc[p] = "done" /\ op[p] \in SubTransitions /\ pre[p].store # Nil) =>
            /\ res[p] = OK => pre[p].store.status = SubscriptionStatusActive
            /\ (pre[p].store.status # SubscriptionStatusActive /\ StoreOk(fx[p])) =>
                   /\ res[p] = ErrInvalidStatus
                   /\ subStore[arg[p].id] = pre[p].store


-----------------------------------------------------------------------------
\* Notifications and events

\* How many times the call `what` of collaborator e is in f.
Count(f, e, what) ==
    Cardinality({i \in 1..Len(f) : f[i].e = e /\ f[i].what = what})

\* C11: whenever ConfirmPayment returns nil and neither the renderer nor the
\* mail service failed (nor, here, any store call of the confirm), the
\* confirmation mail and exactly one invoice mail were sent before it returned,
\* whatever other callers did to the payment meanwhile.
C11_InvoiceMailed ==
    \A p \in Procs :
        ( /\ pc[p] = "done" /\ op[p] = "ConfirmPayment" /\ res[p] = OK
          /\ \A i \in 1..Len(fx[p]) : fx[p][i].ok ) =>
            /\ Count(fx[p], "mail", "SendPaymentConfirmation") = 1
            /\ Count(fx[p], "mail", "SendInvoiceEmail") = 1


\* The publish calls among the calls f.
IsPublish(c) == c.e = "publisher"

Publishes(f) == SelectSeq(f, IsPublish)

\* The topic and the stored status of each publishing transition.
Topic(o) ==
    CASE o = "ConfirmPayment" -> "payment.confirmed"
      [] o = "CancelPayment"  -> "payment.failed"
      [] o = "RefundPayment"  -> "payment.refunded"

After(o) ==
    CASE o = "ConfirmPayment" -> "COMPLETED"
      [] o = "CancelPayment"  -> "FAILED"
      [] o = "RefundPayment"  -> "REFUNDED"

\* C12: a ConfirmPayment, CancelPayment or RefundPayment that returns nil has
\* made exactly one publish, on payment.confirmed, payment.failed or
\* payment.refunded, of the payment as stored after the transition; an
\* operation that returns not-found or invalid-status, and InitiatePayment,
\* UpdatePayment, DeletePayment, GetPaymentStatus, ListPayments,
\* GenerateInvoice and SendPaymentReminder, publish nothing.
C12_PublishOncePerTransition ==
    \A p \in SeqProcs :
        LET ev == Publishes(fx[p]) IN
        /\ (pc[p] = "done" /\ res[p] = OK
                /\ op[p] \in {"ConfirmPayment", "CancelPayment", "RefundPayment"}) =>
            /\ Len(ev) = 1
            /\ ev[1].what = Topic(op[p])
            /\ ev[1].val.id = arg[p].id
            /\ ev[1].val.status = After(op[p])
            /\ ev[1].val = payStore[arg[p].id]
        /\ (pc[p] = "done" /\ res[p] \in {ErrPaymentNotFound, ErrInvalidStatus}) =>
            ev = << >>
        /\ op[p] \in {"InitiatePayment", "UpdatePayment", "DeletePayment",
                      "GetPaymentStatus", "ListPayments", "GenerateInvoice",
                      "SendPaymentReminder"} =>
            ev = << >>

\* C12: CancelPayment has returned nil after one publish on payment.failed.
C12_CancelPublished ==
    \E p \in SeqProcs :
        /\ pc[p] = "done" /\ op[p] = "CancelPayment" /\ res[p] = OK
        /\ Len(Publishes(fx[p])) = 1
        /\ Publishes(fx[p])[1].what = "payment.failed"


-----------------------------------------------------------------------------
\* The other payment operations, one caller at a time

\* C13: InitiatePayment gives the payment an identity no payment had and
\* status Pending, whatever identity and status the caller's record carried,
\* and creates it in the store; it returns nil exactly when repo.Create
\* succeeded, also when cache.Set failed; when repo.Create failed it returns
\* that error and has not written the cache.
C13_InitiateFresh ==
    \A p \in SeqProcs :
        op[p] = "InitiatePayment" =>
            /\ loc[p].id \notin {"", arg[p].in.id}
            /\ pre[p].store = Nil
            /\ loc[p].status = PaymentStatusPending
            /\ pc[p] = "done" =>
                IF Succeeded(fx[p], "store", "Create")
                THEN /\ res[p] = OK
                     /\ PayRow(loc[p].id) = loc[p]
                ELSE /\ res[p] = ErrStore
                     /\ Len(Writes(fx[p])) = 1
                     /\ PayRow(loc[p].id) = Nil
                     /\ PayEntry(loc[p].id) = pre[p].cache

\* C13: the caller supplied an identity and status Completed; InitiatePayment
\* returned nil although the cache write failed, and a Pending payment with
\* another identity is stored.
C13_SuppliedOverridden ==
    \E p \in SeqProcs :
        /\ pc[p] = "done" /\ op[p] = "InitiatePayment" /\ res[p] = OK
        /\ arg[p].in.id # "" /\ arg[p].in.status = "COMPLETED"
        /\ \E i \in 1..Len(fx[p]) : fx[p][i].e = "cache" /\ ~fx[p][i].ok
        /\ PayRow(loc[p].id).status = "PENDING"
        /\ ~Has(payStore, arg[p].in.id)


\* C14: with one caller at a time and no store failure, UpdatePayment of a
\* Pending payment returns nil and the row then holds the given amount,
\* currency and description, with status, identity, customer email and
\* creation time as before; on a payment that is not Pending it returns
\* ErrInvalidStatus, on an identity not stored ErrPaymentNotFound, and in both
\* cases the row and the cache entry are as before.
C14_UpdateFrame ==
    \A p \in SeqProcs :
        (pc[p] = "done" /\ op[p] = "UpdatePayment" /\ StoreOk(fx[p])) =>
            LET old == pre[p].store
                row == PayRow(arg[p].id)
            IN IF old = Nil
               THEN /\ res[p] = ErrPaymentNotFound
                    /\ row = Nil /\ PayEntry(arg[p].id) = pre[p].cache
               ELSE IF old.status # PaymentStatusPending
               THEN /\ res[p] = ErrInvalidStatus
                    /\ row = old /\ PayEntry(arg[p].id) = pre[p].cache
               ELSE /\ res[p] = OK
                    /\ row.amount = arg[p].in.amount
                    /\ row.currency = arg[p].in.currency
                    /\ row.description = arg[p].in.description
                    /\ row.status = PaymentStatusPending
                    /\ row.id = arg[p].id
                    /\ row.customerEmail = old.customerEmail
                    /\ row.createdAt = old.createdAt


\* The calls (e, what) among the writing calls w, in order.
Calls(w) == [i \in 1..Len(w) |-> <<w[i].e, w[i].what>>]

\* C15: DeletePayment of an identity that is not stored returns
\* ErrPaymentNotFound and changes nothing; of a stored payment, whatever its
\* status, it deletes the row and then calls cache.Delete for its key, after
\* which (if that call succeeded) the entry is gone; when repo.Delete fails it
\* returns the error, has not called the cache, and the entry is as before.
C15_DeleteThenEvict ==
    \A p \in SeqProcs :
        (pc[p] = "done" /\ op[p] = "DeletePayment") =>
            LET w == Writes(fx[p])
                row == PayRow(arg[p].id)
                entry == PayEntry(arg[p].id)
            IN /\ (pre[p].store = Nil /\ StoreOk(fx[p])) =>
                    /\ res[p] = ErrPaymentNotFound
                    /\ w = << >> /\ row = Nil /\ entry = pre[p].cache
               /\ (pre[p].store # Nil /\ StoreOk(fx[p])) =>
                    /\ res[p] = OK
                    /\ row = Nil
                    /\ Calls(w) = << <<"store", "Delete">>, <<"cache", "Delete">> >>
                    /\ w[2].ok => entry = Nil
               /\ (w # << >> /\ ~w[1].ok) =>
                    /\ res[p] = ErrStore
                    /\ Len(w) = 1
                    /\ row = pre[p].store /\ entry = pre[p].cache

\* C15: a Refunded payment with a cache entry was deleted and its entry evicted.
C15_DeletedRefunded ==
    \E p \in SeqProcs :
        /\ pc[p] = "done" /\ op[p] = "DeletePayment" /\ res[p] = OK
        /\ pre[p].store # Nil /\ pre[p].store.status = "REFUNDED"
        /\ pre[p].cache # Nil
        /\ PayRow(arg[p].id) = Nil /\ PayEntry(arg[p].id) = Nil


\* The store was read by one of the calls f.
ReadStore(f) == \E i \in 1..Len(f) : f[i].e = "store"

\* C16: GetPaymentStatus returns the snapshot the cache gave it without
\* error, and then does not read the store; otherwise it reads the row from
\* the store, returns it and writes it to the cache under "payment:" + id for
\* 24 hours; when the store has no such row it returns ErrPaymentNotFound and
\* does not write the cache.
C16_CacheAside ==
    \A p \in SeqProcs :
        (pc[p] = "done" /\ op[p] = "GetPaymentStatus") =>
            LET id == arg[p].id
                key == <<"payment:", id>>
                hit == fx[p][1].ok /\ pre[p].cache # Nil /\ now < pre[p].cache.exp
            IN IF hit
               THEN /\ res[p] = OK /\ ret[p] = pre[p].cache.val
                    /\ ~ReadStore(fx[p])
                    /\ Writes(fx[p]) = << >>
                    /\ PayEntry(id) = pre[p].cache
               ELSE /\ ReadStore(fx[p])
                    /\ (StoreOk(fx[p]) /\ pre[p].store = Nil) =>
                          /\ res[p] = ErrPaymentNotFound
                          /\ Writes(fx[p]) = << >>
                          /\ PayEntry(id) = pre[p].cache
                    /\ (StoreOk(fx[p]) /\ pre[p].store # Nil) =>
                          /\ res[p] = OK /\ ret[p] = pre[p].store
                          /\ Calls(Writes(fx[p])) = << <<"cache", "Set">> >>
                          /\ Writes(fx[p])[1].ok =>
                                /\ key \in DOMAIN payCache
                                /\ PayEntry(id) = [val |-> pre[p].store, exp |-> now + 24]
                    /\ ~StoreOk(fx[p]) =>
                          /\ res[p] = ErrStore
                          /\ Writes(fx[p]) = << >>

\* C16: GetPaymentStatus missed the cache, read a stored payment and filled
\* the cache with it.
C16_MissFilled ==
    \E p \in SeqProcs :
        /\ pc[p] = "done" /\ op[p] = "GetPaymentStatus" /\ res[p] = OK
        /\ pre[p].cache = Nil /\ pre[p].store # Nil
        /\ ret[p] = pre[p].store
        /\ PayEntry(arg[p].id) # Nil
        /\ PayEntry(arg[p].id).val = pre[p].store

\* The store or the cache was written by one of the calls f.
Stored(f) ==
    \E i \in 1..Len(f) : f[i].e \in {"store", "cache"} /\ IsWrite(f[i])

\* C17: GenerateInvoice returns ErrInvalidStatus for a stored payment of any
\* status but Completed and ErrPaymentNotFound for an identity that is not
\* stored; whatever it returns, the row and the cache entry are as they were
\* when it was called, it made no writing call to either and published nothing.
C17_InvoiceReadOnly ==
    \A p \in SeqProcs :
        (pc[p] = "done" /\ op[p] = "GenerateInvoice") =>
            /\ (StoreOk(fx[p]) /\ pre[p].store = Nil) => res[p] = ErrPaymentNotFound
            /\ (StoreOk(fx[p]) /\ pre[p].store # Nil) =>
                  (pre[p].store.status # PaymentStatusCompleted
                      <=> res[p] = ErrInvalidStatus)
            /\ res[p] = OK =>
                  /\ pre[p].store # Nil
                  /\ pre[p].store.status = PaymentStatusCompleted
                  /\ ret[p].invoiceURL = InvoiceURL(arg[p].id)
            /\ PayRow(arg[p].id) = pre[p].store
            /\ PayEntry(arg[p].id) = pre[p].cache
            /\ ~Stored(fx[p])
            /\ Publishes(fx[p]) = << >>

\* C17: GenerateInvoice of a Refunded payment returned ErrInvalidStatus.
C17_RefundedRejected ==
    \E p \in SeqProcs :
        /\ pc[p] = "done" /\ op[p] = "GenerateInvoice"
        /\ pre[p].store # Nil
        /\ pre[p].store.status = PaymentStatusRefunded
        /\ res[p] = ErrInvalidStatus
        /\ PayRow(arg[p].id) = pre[p].store

C19_CancelledStaysCancelled ==
    \A p \in SeqProcs :
        (pc[p] = "done" /\ faulty = {}) =>
            LET id == arg[p].id
                row == SubRow(id)
            IN /\ ( /\ op[p] = "CreateSubscription" /\ arg[p].in.status = ""
                    /\ pre[p].store = Nil ) =>
                     /\ res[p] = OK
                     /\ row # Nil
                     /\ row.status = SubscriptionStatusActive
               /\ ( /\ op[p] = "CancelSubscription" /\ pre[p].store # Nil
                    /\ pre[p].store.status = SubscriptionStatusActive ) =>
                     /\ res[p] = OK
                     /\ row.status = SubscriptionStatusCancelled
               /\ ( /\ op[p] \in {"CancelSubscription", "RenewSubscription"}
                    /\ pre[p].store # Nil
                    /\ pre[p].store.status = SubscriptionStatusCancelled ) =>
                     /\ res[p] = ErrInvalidStatus
                     /\ row = pre[p].store

\* C19: RenewSubscription of a subscription that was created and then
\* cancelled returned ErrInvalidStatus, the row staying Cancelled.
C19_RenewAfterCancel ==
    \E p \in SeqProcs :
        /\ faulty = {}
        /\ pc[p] = "done" /\ op[p] = "RenewSubscription"
        /\ pre[p].store # Nil
        /\ pre[p].store.status = SubscriptionStatusCancelled
        /\ res[p] = ErrInvalidStatus
        /\ SubRow(arg[p].id).status = SubscriptionStatusCancelled

\* What CreateSubscription has done when it returns.
CreatedSubscription(p) ==
    LET id == arg[p].id
        in == arg[p].in
        subscription == loc[p]
        w == Writes(fx[p])
    IN /\ id = (IF in.id = "" THEN id ELSE in.id)
       /\ in.id = "" => (id # "" /\ pre[p].store = Nil)
       /\ subscription.id = id
       /\ subscription.status =
             (IF in.status = "" THEN SubscriptionStatusActive ELSE in.status)
       /\ IF StoreOk(fx[p])
          THEN /\ res[p] = OK
               /\ SubRow(id) = [subscription EXCEPT !.price = Decimal2(@)]
               /\ Calls(w) = << <<"store", "Create">>, <<"cache", "Set">> >>
               /\ w[2].ok => SubEntry(id) = [val |-> subscription, exp |-> now + 24]
               /\ ~w[2].ok => SubEntry(id) = pre[p].cache
          ELSE /\ res[p] = ErrStore
               /\ SubRow(id) = pre[p].store
               /\ Calls(w) = << <<"store", "Create">> >>
               /\ SubEntry(id) = pre[p].cache

\* C20: CreateSubscription keeps a supplied identity and generates one only
\* when none is supplied, keeps a supplied status and sets Active only when
\* none is supplied, inserts the subscription and then writes it to the cache,
\* returning nil whether or not the cache write succeeded; and no step of a
\* CreateSubscription or a RenewSubscription changes the stored payments.
C20_SubscriptionOnly ==
    /\ [](\A p \in SeqProcs :
            (pc[p] = "done" /\ op[p] = "CreateSubscription") => CreatedSubscription(p))
    /\ [][\A p \in SeqProcs :
            op'[p] \in {"CreateSubscription", "RenewSubscription"} =>
                payStore' = payStore]_vars

\* C20: with payments stored, CreateSubscription was given an identity and no
\* status, and stored and cached an Active subscription under that identity.
C20_SuppliedIdKept ==
    \E p \in SeqProcs :
        /\ pc[p] = "done" /\ op[p] = "CreateSubscription" /\ res[p] = OK
        /\ arg[p].in.id = SuppliedSubId
        /\ DOMAIN payStore # {}
        /\ SubRow(SuppliedSubId) # Nil
        /\ SubRow(SuppliedSubId).status = SubscriptionStatusActive
        /\ SubEntry(SuppliedSubId) # Nil

\* C21: a RenewSubscription that returns nil leaves the stored status Active
\* and extends the end date: the stored end date after the call is later than
\* the one before it.  The clock counts whole hours, so that a renewal in the
\* hour in which the dates were last set stores an equal end date; the
\* property is stated as "never earlier", which "strictly later" implies.
C21_RenewExtends ==
    \A p \in SeqProcs :
        ( /\ pc[p] = "done" /\ op[p] = "RenewSubscription" /\ res[p] = OK
          /\ pre[p].store # Nil ) =>
            /\ SubRow(arg[p].id).status = SubscriptionStatusActive
            /\ SubRow(arg[p].id).endDate >= pre[p].store.endDate

\* C22: GetSubscription returns the snapshot the cache gave it; when the cache
\* has none or the cache read fails it reads the store, never returns the
\* cache's error, returns the stored row and writes it to the cache; it
\* returns ErrSubscriptionNotFound only for an identity that is in neither the
\* cache nor the store, and for each such identity once the store was read.
C22_SubscriptionCacheAside ==
    \A p \in SeqProcs :
        (pc[p] = "done" /\ op[p] = "GetSubscription") =>
            LET id == arg[p].id
                hit == fx[p][1].ok /\ pre[p].cache # Nil /\ now < pre[p].cache.exp
                w == Writes(fx[p])
            IN /\ res[p] \in {OK, ErrSubscriptionNotFound, ErrStore}
               /\ IF hit
                  THEN /\ res[p] = OK /\ ret[p] = pre[p].cache.val
                       /\ ~ReadStore(fx[p])
                       /\ w = << >>
                  ELSE /\ ReadStore(fx[p])
                       /\ (StoreOk(fx[p]) /\ pre[p].store # Nil) =>
                             /\ res[p] = OK /\ ret[p] = pre[p].store
                             /\ Calls(w) = << <<"cache", "Set">> >>
                             /\ w[1].ok =>
                                   SubEntry(id) = [val |-> pre[p].store, exp |-> now + 24]
                       /\ ~StoreOk(fx[p]) => res[p] = ErrStore /\ w = << >>
               /\ res[p] = ErrSubscriptionNotFound =>
                     pre[p].store = Nil /\ pre[p].cache = Nil /\ w = << >>
               /\ (pre[p].store = Nil /\ pre[p].cache = Nil /\ StoreOk(fx[p])) =>
                     res[p] = ErrSubscriptionNotFound

\* C22: the cache held a snapshot but the cache read failed; GetSubscription
\* returned the stored row without an error.
C22_CacheErrorHidden ==
    \E p \in SeqProcs :
        /\ pc[p] = "done" /\ op[p] = "GetSubscription"
        /\ ~fx[p][1].ok /\ pre[p].cache # Nil
        /\ res[p] = OK /\ ret[p] = pre[p].store
        /\ pre[p].store # Nil

\* The records a list operation returned.
Records(p) ==
    IF op[p] = "ListPayments" THEN ret[p].payments ELSE ret[p].subscriptions

\* The table a list operation reads.
Table(p) == IF op[p] = "ListPayments" THEN payStore ELSE subStore

\* C23: ListPayments and ListSubscriptions query the store with page 1 for a
\* page below 1, limit 10 for a limit below 1 or above 100, and the given
\* page and limit otherwise; (no collaborator failing) they return at most
\* that limit of records, each one of the customer asked for, or of any
\* customer when none is asked for, and a total that is the number of such
\* records in the table whatever the page and the limit; neither changes a
\* table or a cache.
C23_ListClamped ==
    /\ [](\A p \in SeqProcs :
            (pc[p] = "done" /\ op[p] \in {"ListPayments", "ListSubscriptions"}) =>
                LET in == arg[p].in
                    q == loc[p]
                    matching == {id \in DOMAIN Table(p) :
                                    in.customerEmail \in {"", Table(p)[id].customerEmail}}
                IN /\ q.page = (IF in.page < 1 THEN 1 ELSE in.page)
                   /\ q.limit = (IF in.limit < 1 \/ in.limit > 100 THEN 10 ELSE in.limit)
                   /\ res[p] = OK
                   /\ Len(Records(p)) <= q.limit
                   /\ \A i \in 1..Len(Records(p)) : Records(p)[i].id \in matching
                   /\ ret[p].total = Cardinality(matching))
    /\ [][\A p \in SeqProcs :
            op'[p] \in {"ListPayments", "ListSubscriptions"} =>
                UNCHANGED <<payStore, subStore, payCache, subCache>>]_vars

Businesses == {"b1", "b2"}
Dates == {"2025-06-01"}
SlotTimes == {<<"09:00">>, <<"10:00", "11:00">>}
Users == {"u1"}
SlotIdSeq == <<"k1", "k2", "k3", "k4">>
ApptIdSeq == <<"a1", "a2", "a3", "a4">>
UnknownSlotId == "k0"
MaxSlots == 2
MaxAppointments == 2

BusinessSlotFields == {"id", "businessID", "date", "time", "isBooked", "createdAt"}

\* fmt.Sprintf("slots:%s:%s", businessID, date), the date as "2006-01-02":
\* CreateSlots uses the request's string, which time.Parse accepted, and
\* GetAvailableSlots formats the parsed date, which gives that string.
SlotsKey(businessID, date) == <<"slots:", businessID, ":", date>>

\* fmt.Sprintf("slots:*"): one key, the five characters and the star.
BookedKey == <<"slots:", "*">>

\* json.Marshal / json.Unmarshal of a list of slots.
MarshalSlots(slots) == {Marshal(slot) : slot \in slots}

UnmarshalSlots(data) == {Unmarshal(d, BusinessSlotFields) : d \in data}

\* repo.CreateSlots: one batch insert of the slots.
RepoCreateSlots(table, slots) ==
    [id \in DOMAIN table \cup {slot.id : slot \in slots} |->
        IF id \in DOMAIN table THEN table[id]
        ELSE CHOOSE slot \in slots : slot.id = id]

\* repo.GetAvailableSlots: business_id = ? AND date = ? AND is_booked = false.
RepoGetAvailableSlots(table, businessID, date) ==
    {table[id] : id \in {k \in DOMAIN table :
        /\ table[k].businessID = businessID
        /\ table[k].date = date
        /\ ~table[k].isBooked}}

\* UPDATE business_slots SET is_booked = true WHERE id = ?: a slot that
\* does not exist matches no row, and that is no error.
RepoBookSlot(table, slotID) ==
    [id \in DOMAIN table |->
        IF id = slotID THEN [table[id] EXCEPT !.isBooked = TRUE] ELSE table[id]]

\* The two tables, as a caller's snapshot of them.
Tables == [id |-> "tables", slots |-> slotStore, appointments |-> apptStore]

\* What the appointment service leaves alone of the payment service.
paying == <<payStore, subStore, freePay, usedPay, freeSub, usedSub, faulty, caches, now>>

\* A caller starts CreateSlots(ctx, req): the slots get fresh identities,
\* IsBooked false.
CallCreateSlots(p) ==
    \E businessID \in Businesses, date \in Dates, times \in SlotTimes :
        LET n == Cardinality(DOMAIN slotStore) IN
        /\ n + Len(times) <= MaxSlots
        /\ Begin(p, "CreateSlots", "",
                 [businessID |-> businessID, date |-> date, slots |-> times],
                 Tables, Lookup(slotCache, SlotsKey(businessID, date)), "slots")
        /\ loc' = [loc EXCEPT ![p] =
                [id |-> "slots",
                 slots |-> {[id |-> SlotIdSeq[n + i], businessID |-> businessID,
                             date |-> date, time |-> times[i], isBooked |-> FALSE,
                             createdAt |-> now] : i \in 1..Len(times)}]]
        /\ UNCHANGED <<paying, booking>>

\* CreateSlots: repo.CreateSlots.
SlotsCreate(p) ==
    /\ pc[p] = "slots"
    /\ \E ok \in Outcomes("store") :
        /\ Did(p, "store", "CreateSlots", ok)
        /\ IF ok
           THEN slotStore' = RepoCreateSlots(slotStore, loc[p].slots) /\ Goto(p, "slotsdel")
           ELSE UNCHANGED slotStore /\ Finish(p, ErrStore)
    /\ SameCall
    /\ UNCHANGED <<paying, apptStore, slotCache, loc, ret>>

\* CreateSlots: redis.Del of the business's and date's key; the result is
\* dropped.
SlotsInvalidate(p) ==
    /\ pc[p] = "slotsdel"
    /\ \E ok \in Outcomes("cache") :
        /\ Did(p, "cache", "Del", ok)
        /\ slotCache' = IF ok
                        THEN Del(slotCache, SlotsKey(arg[p].in.businessID, arg[p].in.date))
                        ELSE slotCache
    /\ Finish(p, OK)
    /\ SameCall
    /\ UNCHANGED <<paying, slotStore, apptStore, loc, ret>>

\* A caller starts GetAvailableSlots(ctx, businessID, date).
CallGetAvailableSlots(p) ==
    \E businessID \in Businesses, date \in Dates :
        /\ Begin(p, "GetAvailableSlots", "",
                 [businessID |-> businessID, date |-> date],
                 Tables, Lookup(slotCache, SlotsKey(businessID, date)), "slotsget")
        /\ UNCHANGED <<paying, booking, loc>>

\* GetAvailableSlots: redis.Get; a hit that decodes is the answer.
SlotsCacheGet(p) ==
    /\ pc[p] = "slotsget"
    /\ \E ok \in Outcomes("cache") :
        LET key == SlotsKey(arg[p].in.businessID, arg[p].in.date) IN
        /\ Did(p, "cache", "Get", ok)
        /\ IF ok /\ Has(slotCache, key)
           THEN /\ ret' = [ret EXCEPT ![p] =
                        [id |-> "slots", slots |-> UnmarshalSlots(slotCache[key].data)]]
                /\ Finish(p, OK)
           ELSE UNCHANGED ret /\ Goto(p, "slotsread")
    /\ SameCall
    /\ UNCHANGED <<paying, booking, loc>>

\* GetAvailableSlots: repo.GetAvailableSlots.
SlotsRead(p) ==
    /\ pc[p] = "slotsread"
    /\ \E ok \in Outcomes("store") :
        /\ Did(p, "store", "GetAvailableSlots", ok)
        /\ IF ok
           THEN /\ loc' = [loc EXCEPT ![p] =
                        [id |-> "slots",
                         slots |-> RepoGetAvailableSlots(slotStore, arg[p].in.businessID,
                                                          arg[p].in.date)]]
                /\ Goto(p, "slotsfill")
           ELSE UNCHANGED loc /\ Finish(p, ErrStore)
    /\ SameCall
    /\ UNCHANGED <<paying, booking, ret>>

\* GetAvailableSlots: redis.Set of the list for five minutes; the result is
\* dropped.
SlotsFill(p) ==
    /\ pc[p] = "slotsfill"
    /\ \E ok \in Outcomes("cache") :
        /\ Did(p, "cache", "Set", ok)
        /\ slotCache' = IF ok
                        THEN Put(slotCache, SlotsKey(arg[p].in.businessID, arg[p].in.date),
                                 [id |-> "list", data |-> MarshalSlots(loc[p].slots)])
                        ELSE slotCache
    /\ ret' = [ret EXCEPT ![p] = loc[p]]
    /\ Finish(p, OK)
    /\ SameCall
    /\ UNCHANGED <<paying, slotStore, apptStore, loc>>

\* Five minutes after its Set a cached list is gone.
SlotsExpire ==
    /\ \E key \in DOMAIN slotCache : slotCache' = Del(slotCache, key)
    /\ UNCHANGED <<paying, slotStore, apptStore, callers>>

\* A caller starts BookAppointment(ctx, req): the appointment gets a fresh
\* identity; the slot may be any slot, booked or not, or none.
CallBookAppointment(p) ==
    \E userID \in Users, slotID \in DOMAIN slotStore \cup {UnknownSlotId} :
        LET n == Cardinality(DOMAIN apptStore) IN
        /\ n < MaxAppointments
        /\ Begin(p, "BookAppointment", slotID, [userID |-> userID, slotID |-> slotID],
                 Tables, Nil, "book")
        /\ loc' = [loc EXCEPT ![p] =
                [id |-> ApptIdSeq[n + 1], userID |-> userID, slotID |-> slotID,
                 createdAt |-> now]]
        /\ UNCHANGED <<paying, booking>>

\* A variant of repo.CreateAppointment without the transaction: the insert
\* stays when the update fails.
BookCreateNoTransaction(p) ==
    /\ pc[p] = "book"
    /\ \E failed \in IF "store" \in faulty THEN {"", "Create", "Update"} ELSE {""} :
        /\ Did(p, "store", "CreateAppointment", failed = "")
        /\ apptStore' = IF failed = "Create" THEN apptStore
                        ELSE Put(apptStore, loc[p].id, loc[p])
        /\ slotStore' = IF failed = "" THEN RepoBookSlot(slotStore, loc[p].slotID)
                        ELSE slotStore
        /\ IF failed = "" THEN Goto(p, "bookpub") ELSE Finish(p, ErrStore)
    /\ SameCall
    /\ UNCHANGED <<paying, slotCache, loc, ret>>

\* BookAppointment: repo.CreateAppointment, one transaction of the insert
\* of the appointment and the update of the slot; either statement may
\* fail, and then the transaction is rolled back.
BookCreate(p) ==
    /\ pc[p] = "book"
    /\ \E failed \in IF "store" \in faulty THEN {"", "Create", "Update"} ELSE {""} :
        /\ Did(p, "store", "CreateAppointment", failed = "")
        /\ IF failed = ""
           THEN /\ apptStore' = Put(apptStore, loc[p].id, loc[p])
                /\ slotStore' = RepoBookSlot(slotStore, loc[p].slotID)
                /\ Goto(p, "bookpub")
           ELSE UNCHANGED <<apptStore, slotStore>> /\ Finish(p, ErrStore)
    /\ SameCall
    /\ UNCHANGED <<paying, slotCache, loc, ret>>

\* BookAppointment: the appointment.created event; a failure is dropped.
BookPublish(p) ==
    /\ pc[p] = "bookpub"
    /\ \E ok \in Outcomes("publisher") :
        Did(p, "publisher", "appointment.created", ok)
    /\ Goto(p, "bookdel")
    /\ SameCall
    /\ UNCHANGED <<paying, booking, loc, ret>>

\* BookAppointment: redis.Del of the key "slots:*"; the result is dropped.
BookInvalidate(p) ==
    /\ pc[p] = "bookdel"
    /\ \E ok \in Outcomes("cache") :
        /\ Did(p, "cache", "Del", ok)
        /\ slotCache' = IF ok THEN Del(slotCache, BookedKey) ELSE slotCache
    /\ ret' = [ret EXCEPT ![p] = loc[p]]
    /\ Finish(p, OK)
    /\ SameCall
    /\ UNCHANGED <<paying, slotStore, apptStore, loc>>

\* One caller of the appointment use case, one operation at a time; in one
\* run nothing fails, in the other every collaborator may.
BookInit ==
    \/ Start({}, {}, {})
    \/ Start({}, {}, Collaborators)

BookNext ==
    \/ \E p \in SeqProcs :
            \/ CallCreateSlots(p)
            \/ SlotsCreate(p)
            \/ SlotsInvalidate(p)
            \/ CallGetAvailableSlots(p)
            \/ SlotsCacheGet(p)
            \/ SlotsRead(p)
            \/ SlotsFill(p)
            \/ CallBookAppointment(p)
            \/ BookCreate(p)
            \/ BookPublish(p)
            \/ BookInvalidate(p)
            \/ Return(p)
    \/ SlotsExpire

SpecBook == BookInit /\ [][BookNext]_vars


\* C25: BookAppointment reserves the slot together with creating the
\* appointment: a slot of the table is booked exactly when an appointment
\* for it exists, and a booking that failed, at the insert or at the update,
\* left both tables as they were.
C25_BookedWithAppointment ==
    /\ \A k \in DOMAIN slotStore :
            slotStore[k].isBooked <=> \E a \in DOMAIN apptStore : apptStore[a].slotID = k
    /\ \A p \in SeqProcs :
            (op[p] = "BookAppointment" /\ pc[p] = "done" /\ res[p] # OK)
                => /\ slotStore = pre[p].store.slots
                   /\ apptStore = pre[p].store.appointments

\* A booking of a free slot has gone through, and a later one has failed.
C25_BookedThenFailed ==
    \E p \in SeqProcs :
        /\ op[p] = "BookAppointment" /\ pc[p] = "done" /\ res[p] = ErrStore
        /\ \E k \in DOMAIN slotStore : slotStore[k].isBooked
        /\ \E k \in DOMAIN slotStore : ~slotStore[k].isBooked

\* C29: once BookAppointment has booked a slot, no GetAvailableSlots that
\* starts later answers with that slot, whether or not the list of its
\* business and date was cached before the booking.
C29_BookedNotListed ==
    \A p \in SeqProcs :
        (op[p] = "GetAvailableSlots" /\ pc[p] = "done" /\ res[p] = OK)
            => \A slot \in ret[p].slots :
                    Has(pre[p].store.slots, slot.id)
                        => ~pre[p].store.slots[slot.id].isBooked

\* C30: when CreateSlots has returned nil the key of its business and date
\* is not in the cache, so that the next GetAvailableSlots reads the table;
\* when repo.CreateSlots failed the operation made no call of the cache, and
\* the entry is what it was unless its five minutes have passed.
C30_CreateSlotsInvalidates ==
    \A p \in SeqProcs :
        (op[p] = "CreateSlots" /\ pc[p] = "done")
            => IF res[p] = OK
               THEN ~Has(slotCache, SlotsKey(arg[p].in.businessID, arg[p].in.date))
               ELSE /\ \A i \in 1..Len(fx[p]) : fx[p][i].e # "cache"
                    /\ Lookup(slotCache, SlotsKey(arg[p].in.businessID, arg[p].in.date))
                            \in {pre[p].cache, Nil}


\* The calls f have a read of the row from the store among them.
LoadedFromStore(f) == \E i \in 1..Len(f) : f[i].e = "store" /\ f[i].what = "GetByID"

\* C26: ConfirmPayment, RefundPayment, CancelPayment, UpdatePayment,
\* CancelSubscription and RenewSubscription load the record cache-first:
\* their first call is a read of the cache, and when that read gave a
\* snapshot they do not read the store.
C26_TransitionsLoadCacheFirst ==
    \A p \in SeqProcs :
        (pc[p] = "done" /\ op[p] \in PayTransitions \cup {"CancelSubscription", "RenewSubscription"})
            => /\ fx[p][1].e = "cache" /\ fx[p][1].what = "Get"
               /\ (fx[p][1].ok /\ pre[p].cache # Nil /\ now < pre[p].cache.exp)
                    => ~LoadedFromStore(fx[p])


\* ------------------------------------------------------ gRPC status codes

\* The operations whose handler tells the use case's errors apart, and the
\* code the handler of operation o answers with when the use case returned
\* err: status.Error(codes.X, ...), or no error.
CodedOps == {"UpdatePayment", "GetSubscription", "CancelSubscription", "RenewSubscription"}

Code(o, err) ==
    IF err = OK THEN "OK"
    ELSE IF o \in CodedOps /\ err \in {ErrPaymentNotFound, ErrSubscriptionNotFound}
    THEN "NotFound"
    ELSE IF o \in CodedOps \ {"GetSubscription"} /\ err = ErrInvalidStatus
    THEN "FailedPrecondition"
    ELSE "Internal"

\* The operations the codes are stated for.
ExposedOps ==
    PayLoadOps \cup {"GetPaymentStatus", "GetSubscription", "CancelSubscription",
                     "RenewSubscription"}

\* C27: the handler of every exposed operation answers an absent identity
\* with NotFound, an illegal transition with FailedPrecondition and a store
\* error with Internal.
C27_CodePerKind ==
    \A p \in SeqProcs :
        (pc[p] = "done" /\ op[p] \in ExposedOps)
            => /\ res[p] \in {ErrPaymentNotFound, ErrSubscriptionNotFound}
                    => Code(op[p], res[p]) = "NotFound"
               /\ res[p] = ErrInvalidStatus => Code(op[p], res[p]) = "FailedPrecondition"
               /\ res[p] = ErrStore => Code(op[p], res[p]) = "Internal"


\* The entry of key k written by a step: it is new, or not what it was.
Written(c, d, k) == k \in DOMAIN d /\ (k \notin DOMAIN c \/ d[k] # c[k])

\* C28: every step that writes an entry of the payment cache or of the
\* subscription cache writes it under the prefix "payment:" or
\* "subscription:" followed by the identity of the record written, to
\* expire 24 hours later, whatever the status of the record.
C28_CacheWrites ==
    [][/\ \A k \in DOMAIN payCache' :
            Written(payCache, payCache', k)
                => /\ k = <<"payment:", Unmarshal(payCache'[k].data, PaymentFields).id>>
                   /\ payCache'[k].exp = now + 24
       /\ \A k \in DOMAIN subCache' :
            Written(subCache, subCache', k)
                => /\ k = <<"subscription:", Unmarshal(subCache'[k].data, SubscriptionFields).id>>
                   /\ subCache'[k].exp = now + 24]_vars

\* RefundPayment has written the payment, now Refunded, to the cache.
C28_FinalCached ==
    \E p \in SeqProcs, id \in usedPay :
        /\ pc[p] = "done" /\ op[p] = "RefundPayment" /\ arg[p].id = id
        /\ PayEntry(id) # Nil /\ PayEntry(id) # pre[p].cache
        /\ PayEntry(id).val.status = PaymentStatusRefunded
        /\ PayEntry(id).exp = now + 24


\* The publications on a subject about payment id that went out, among the
\* calls of every caller's operation: <<caller, index>>.
Published(subject, id) ==
    {<<p, i>> \in Callers \X (1..8) :
        /\ i <= Len(fx[p])
        /\ fx[p][i].e = "publisher" /\ fx[p][i].what = subject /\ fx[p][i].ok
        /\ fx[p][i].val.id = id}

\* The invoice mails of ConfirmPayment(id) that went out.
InvoiceMailed(id) ==
    {<<p, i>> \in Callers \X (1..8) :
        /\ op[p] = "ConfirmPayment" /\ arg[p].id = id
        /\ i <= Len(fx[p])
        /\ fx[p][i].e = "mail" /\ fx[p][i].what = "SendInvoiceEmail" /\ fx[p][i].ok}

\* C31: for each payment, whatever the interleaving of the concurrent
\* callers, payment.confirmed is published at most once, payment.refunded at
\* most once, payment.failed at most once, and ConfirmPayment sends at most
\* one invoice mail.
C31_EventsAtMostOnce ==
    \A id \in usedPay :
        /\ \A subject \in {PaymentConfirmedSubject, PaymentRefundedSubject,
                           PaymentFailedSubject} :
                Cardinality(Published(subject, id)) <= 1
        /\ Cardinality(InvoiceMailed(id)) <= 1


\* Records a and b agree on the fields named.
Agree(a, b, fields) == \A name \in fields : a[name] = b[name]

\* C32: when no collaborator call fails and one operation runs at a time,
\* after every completed operation each entry the payment cache holds has
\* the status, amount, currency and description of the stored payment of its
\* identity, each entry the subscription cache holds has the status and end
\* date of the stored subscription, and no entry is held for a payment that
\* is not stored.
C32_CacheAgreesWithStore ==
    faulty = {} =>
        \A p \in SeqProcs :
            pc[p] = "done" =>
                /\ \A k \in DOMAIN payCache :
                        /\ Has(payStore, k[2])
                        /\ Agree(Unmarshal(payCache[k].data, PaymentFields), payStore[k[2]],
                                 {"status", "amount", "currency", "description"})
                /\ \A k \in DOMAIN subCache :
                        /\ Has(subStore, k[2])
                        /\ Agree(Unmarshal(subCache[k].data, SubscriptionFields), subStore[k[2]],
                                 {"status", "endDate"})


\* Concurrent callers of the payment use case on one payment; no
\* collaborator fails.
QuietInit == Start({PayIdSeq[1]}, {}, {})

SpecQuiet == QuietInit /\ [][Next]_vars

\* C33: with every store and cache call succeeding, once every concurrent
\* operation on a payment has returned, the status of the cached snapshot of
\* the payment is the status of its stored row.
C33_CacheConverges ==
    (\A p \in Procs : pc[p] \in {"idle", "done"})
        => \A id \in usedPay :
                (PayEntry(id) # Nil /\ PayRow(id) # Nil)
                    => PayEntry(id).val.status = PayRow(id).status


\* C34: a GetPaymentStatus of a payment that was created and has been
\* deleted from the store before the call, and whose store read (if any)
\* did not fail, returns ErrPaymentNotFound, also when the cache.Delete of
\* the DeletePayment had failed.
C34_DeletedIsNotFound ==
    \A p \in SeqProcs :
        (/\ pc[p] = "done" /\ op[p] = "GetPaymentStatus"
         /\ arg[p].id \in usedPay /\ pre[p].store = Nil
         /\ StoreOk(fx[p]))
            => res[p] = ErrPaymentNotFound


\* A caller starts CancelSubscription / RenewSubscription of a subscription
\* that was created.
CallTransition(p) ==
    \E o \in SubTransitions, id \in usedSub :
        /\ Begin(p, o, id, Nil, SubRow(id), SubEntry(id), "sget")
        /\ UNCHANGED <<stores, caches, now, loc>>

\* Concurrent callers of CreateSubscription, CancelSubscription and
\* RenewSubscription on one subscription; the store may fail, the cache
\* does not.
SubRaceInit == Start({}, {SubIdSeq[1]}, {"store"})

SubRaceNext ==
    \E p \in Procs :
        \/ CreateSubscription(p)
        \/ CallTransition(p)
        \/ SubStep(p)
        \/ Return(p)

SpecSubRace == SubRaceInit /\ [][SubRaceNext]_vars

\* C35: with every cache call succeeding, whatever the interleaving of the
\* CancelSubscription and RenewSubscription calls of concurrent callers, a
\* stored subscription whose status is Cancelled keeps that status in every
\* step.
C35_CancelledStays ==
    [][\A id \in DOMAIN subStore :
            subStore[id].status = SubscriptionStatusCancelled
                => /\ id \in DOMAIN subStore'
                   /\ subStore'[id].status = SubscriptionStatusCancelled]_vars


\* C36: no operation sets a subscription's status to Expired: a step after
\* which a stored subscription is Expired that was not so before is the
\* insert of a CreateSubscription whose caller supplied that status; and
\* CancelSubscription and RenewSubscription of a stored Expired subscription
\* return ErrInvalidStatus (or the error of a failed store read) and leave
\* the row as it was.
C36_ExpiredOnlySupplied ==
    /\ [](\A p \in SeqProcs :
            (/\ pc[p] = "done" /\ op[p] \in SubTransitions
             /\ pre[p].store # Nil /\ pre[p].store.status = SubscriptionStatusExpired)
                => /\ res[p] = ErrInvalidStatus \/ (res[p] = ErrStore /\ ~StoreOk(fx[p]))
                   /\ SubRow(arg[p].id) = pre[p].store)
    /\ [][\A id \in DOMAIN subStore' :
            (/\ subStore'[id].status = SubscriptionStatusExpired
             /\ ~(id \in DOMAIN subStore /\ subStore[id].status = SubscriptionStatusExpired))
                => \E p \in Callers :
                        /\ op[p] = "CreateSubscription" /\ pc[p] = "screate"
                        /\ arg[p].id = id
                        /\ arg[p].in.status = SubscriptionStatusExpired]_vars

\* RenewSubscription of a subscription stored as Expired was rejected.
C36_ExpiredRejected ==
    \E p \in SeqProcs :
        /\ pc[p] = "done" /\ op[p] = "RenewSubscription"
        /\ pre[p].store # Nil /\ pre[p].store.status = SubscriptionStatusExpired
        /\ res[p] = ErrInvalidStatus


\* One caller, one operation at a time, on two payments or on two
\* subscriptions with a store and a cache that may fail, or on a payment and
\* a subscription with nothing failing.
FrameInit ==
    \/ Start({PayIdSeq[1], PayIdSeq[2]}, {}, {"store", "cache"})
    \/ Start({}, {SubIdSeq[1], SubIdSeq[2]}, {"store", "cache"})
    \/ Start({PayIdSeq[1]}, {SubIdSeq[1]}, {})

SpecFrame == FrameInit /\ [][SeqNext]_vars

\* The rows and cache entries of every identity but id are after the step
\* what they were before it.
OthersKept(id) ==
    /\ \A k \in (DOMAIN payStore \cup DOMAIN payStore') \ {id} :
            Lookup(payStore', k) = Lookup(payStore, k)
    /\ \A k \in (DOMAIN subStore \cup DOMAIN subStore') \ {id} :
            Lookup(subStore', k) = Lookup(subStore, k)
    /\ \A k \in (DOMAIN payCache \cup DOMAIN payCache') \ {GeneratePaymentCacheKey(id)} :
            Lookup(payCache', k) = Lookup(payCache, k)
    /\ \A k \in (DOMAIN subCache \cup DOMAIN subCache') \ {GenerateSubscriptionCacheKey(id)} :
            Lookup(subCache', k) = Lookup(subCache, k)

\* C37: every step of an operation called with an identity leaves the row
\* and the cache entry of every other identity as they were, and every step
\* of ListPayments and ListSubscriptions leaves every row and every cache
\* entry as it was.
C37_OtherIdentitiesKept ==
    [][\A p \in SeqProcs :
            IF op'[p] \in {"ListPayments", "ListSubscriptions"}
            THEN UNCHANGED <<payStore, subStore, payCache, subCache>>
            ELSE OthersKept(arg'[p].id)]_vars

\* UpdatePayment of one payment has returned nil, written store and cache,
\* while another payment is stored and cached.
C37_UpdatedBesideAnother ==
    \E p \in SeqProcs, other \in usedPay :
        /\ pc[p] = "done" /\ op[p] = "UpdatePayment" /\ res[p] = OK
        /\ other # arg[p].id
        /\ PayRow(other) # Nil /\ PayEntry(other) # Nil
        /\ PayRow(arg[p].id) # pre[p].store /\ PayEntry(arg[p].id) # pre[p].cache


\* C38: BookAppointment returns an appointment only for a slot that was in
\* the table and not booked when it was called, and no two appointments are
\* for the same slot.
C38_OneAppointmentPerSlot ==
    /\ \A p \in SeqProcs :
            (op[p] = "BookAppointment" /\ pc[p] = "done" /\ res[p] = OK)
                => /\ Has(pre[p].store.slots, arg[p].id)
                   /\ ~pre[p].store.slots[arg[p].id].isBooked
    /\ \A a, b \in DOMAIN apptStore :
            apptStore[a].slotID = apptStore[b].slotID => a = b


\* paymentServer.ListPayments: the page and the limit the handler calls the
\* use case with, which are also the Page and Limit of its response: those
\* of the request when positive, else 1 and 10.
Handled(req) ==
    [customerEmail |-> req.customerEmail,
     page |-> IF req.page > 0 THEN req.page ELSE 1,
     limit |-> IF req.limit > 0 THEN req.limit ELSE 10]

\* C39: the page and the limit of a ListPayments response are the page and
\* the limit the store was queried with, whatever the request asked for.
C39_ResponseEchoesEffective ==
    \A p \in SeqProcs :
        (pc[p] = "done" /\ op[p] = "ListPayments" /\ res[p] = OK)
            => /\ Query(Handled(arg[p].in)) = loc[p]
               /\ Handled(arg[p].in).page = loc[p].page
               /\ Handled(arg[p].in).limit = loc[p].limit

=============================================================================
